---- MODULE Spec2Model ----
(***************************************************************************)
(* State-machine model of the CredMatrix backend: the portfolio share      *)
(* mechanism (portfolioController), the employer talent pool               *)
(* (jobController), the credential verification flow                       *)
(* (credentialController), the job/learner matching score                  *)
(* (jobController.getJobMatches, advancedAIController.matchLearnerToJobs)  *)
(* and the AI service (aiService) behind the AI endpoints, the learner     *)
(* skill-gap endpoint and credential creation.                             *)
(* The document store is modelled with the semantics Mongoose/MongoDB give *)
(* the calls the handlers make: save() writes the modified paths only,     *)
(* unique indexes reject a write that duplicates an indexed value.         *)
(***************************************************************************)
EXTENDS Integers, Sequences, FiniteSets, TLC

\* ------------------------------------------------------------------ bounds
NumLearners == 2
MaxTokens == 2
MaxViews == 2
NumEmployers == 2
NumReqs == 2
MaxPoolLen == 2
MaxCreds == 1
MaxJobs == 1
MaxBatch == 2
MaxVerified == 1
CrowdSize == 44

Learners == 1..NumLearners
Tokens == 1..MaxTokens
Employers == 1..NumEmployers
\* the employer requests that can be in flight at once
Reqs == 1..NumReqs
\* req.ip of the public viewers
IPs == {"203.0.113.7"}

\* ------------------------------------------------------- portfolio values
\* shareToken = null, as unsharePortfolio stores it
NullToken == 0
\* a path that is not stored in the document (no default in the schema)
Missing == 0 - 1

\* req.body.isPublic: <<>> is undefined, <<b>> is the value b
BodyIsPublic == {<<>>, <<TRUE>>, <<FALSE>>}

VARIABLES
    users,        \* ids of the learner User documents that exist
    portfolios,   \* Portfolio collection: learnerId -> document
    issued,       \* how many tokens crypto.randomBytes has produced so far
    revoked,      \* history: tokens a successful unshare has cleared
    replaced,     \* history: tokens a later share of the same portfolio overwrote
    resp          \* the last HTTP response sent

pvars == <<users, portfolios, issued, revoked, replaced, resp>>

VARIABLES
    pools,    \* TalentPool collection in insertion order:
              \*   [employerId, learners (sequence of learnerId)]
    treq      \* the employer requests in flight

tvars == <<pools, treq>>

VARIABLES
    creds,     \* Credential collection: _id -> document
    nextCred,  \* how many credentials were ever created (ids are not reused)
    cresp      \* the last response of a credential route

cvars == <<creds, nextCred, cresp>>

VARIABLES
    skills,   \* Learner.skills: learner -> sequence of skill names
    jobs,     \* Job collection: _id -> document
    nextJob,  \* how many jobs were ever created
    mcalc,    \* probe: the values the last matching request computed in
              \*   each pass of its loop, pushed or not
    mresp     \* the last response of a matching or job route

mvars == <<skills, jobs, nextJob, mcalc, mresp>>

VARIABLES
    areq,     \* the request an AI endpoint is handling, NoRequest when none
    aresp     \* probe: the last request to an AI endpoint and its outcome

avars == <<areq, aresp>>

VARIABLES
    credentialsVerified,  \* Employer.credentialsVerified: employer -> count
    vresp                 \* the last response of an employer verification route

evars == <<credentialsVerified, vresp>>

VARIABLES
    achievements   \* Achievement collection in insertion order:
                   \*   [learnerId, isPublic]

hvars == <<achievements>>

VARIABLES
    vreq      \* the public portfolio views in flight

wvars == <<vreq>>

\* what the handlers of one controller leave alone
exceptPortfolio == <<tvars, cvars, mvars, avars, evars, hvars, wvars>>
exceptTalentPool == <<pvars, cvars, mvars, avars, evars, hvars, wvars>>
exceptCredential == <<pvars, tvars, mvars, avars, evars, hvars, wvars>>
exceptMatching == <<pvars, tvars, cvars, avars, evars, hvars, wvars>>
exceptAI == <<pvars, tvars, cvars, mvars, evars, hvars, wvars>>
exceptVerification == <<pvars, tvars, cvars, mvars, avars, hvars, wvars>>

\* Portfolio.create({learnerId, theme, sections, customization, isPublic})
\* the ids in S in ascending order (the order find() returns documents in)
RECURSIVE Ascending(_)
Ascending(S) ==
    IF S = {} THEN <<>>
    ELSE LET x == CHOOSE y \in S : \A z \in S : y <= z
         IN  <<x>> \o Ascending(S \ {x})

NewPortfolio(isPub) ==
    [shareToken  |-> Missing,
     isPublic    |-> IF Len(isPub) > 0 THEN isPub[1] ELSE FALSE,
     views       |-> 0,
     viewHistory |-> <<>>,
     lastShared  |-> Missing,
     sections    |-> [showCredentials |-> TRUE, showAchievements |-> TRUE]]

\* what a handler answers: the status, the learner whose portfolio the body
\* carries (0 when it carries none) and the token of the request or body
Response(op, who, token, status) ==
    [op |-> op, who |-> who, token |-> token, status |-> status,
     data |-> <<>>]

\* Portfolio.findOne({ learnerId })
HasPortfolio(l) == l \in DOMAIN portfolios

\* the write portfolio.save() does for learner l's document
PutPortfolio(l, doc) ==
    [x \in DOMAIN portfolios \cup {l} |-> IF x = l THEN doc ELSE portfolios[x]]

RemovePortfolio(l) ==
    [x \in DOMAIN portfolios \ {l} |-> portfolios[x]]

\* unique sparse index on shareToken: a document that stores the path, even
\* with the value null, is indexed; one that lacks the path is not
IndexConflict(l, tok) ==
    /\ tok # Missing
    /\ \E x \in DOMAIN portfolios : x # l /\ portfolios[x].shareToken = tok

FindShared_AnyVisibility(tok) ==
    {x \in DOMAIN portfolios : portfolios[x].shareToken = tok}

\* Portfolio.findOne({ shareToken: token, isPublic: true })
FindShared(tok) ==
    {x \in DOMAIN portfolios :
        portfolios[x].shareToken = tok /\ portfolios[x].isPublic}

PInit ==
    /\ users = Learners
    /\ portfolios = <<>>
    /\ issued = 0
    /\ revoked = {}
    /\ replaced = {}
    /\ resp = Response("none", 0, Missing, 0)

\* POST /learners/portfolio/create
createPortfolio(l, isPub) ==
    /\ UNCHANGED exceptPortfolio
    /\ l \in users
    /\ IF HasPortfolio(l)
       THEN portfolios' = PutPortfolio(l,
                [portfolios[l] EXCEPT !.isPublic =
                    IF Len(isPub) > 0 THEN isPub[1] ELSE portfolios[l].isPublic])
       ELSE portfolios' = PutPortfolio(l, NewPortfolio(isPub))
    /\ resp' = Response("create", l, Missing, 200)
    /\ UNCHANGED <<users, issued, revoked, replaced>>

\* crypto.randomBytes(32).toString("hex"): a value no earlier call returned
\* (tokens are opaque; the k-th call is given the name k)
FreshToken == issued + 1

\* Date.now() at the share: a logical time that grows with every share
Now == issued + 1

SharedDoc_KeepsVisibility(doc, tok, time) ==
    [doc EXCEPT !.shareToken = tok, !.lastShared = time]

\* the fields generateShareToken assigns before save()
SharedDoc(doc, tok, time) ==
    [doc EXCEPT !.shareToken = tok, !.isPublic = TRUE, !.lastShared = time]

\* POST /learners/portfolio/share
generateShareToken(l) ==
    /\ UNCHANGED exceptPortfolio
    /\ l \in users
    /\ IF ~HasPortfolio(l)
       THEN /\ resp' = Response("share", 0, Missing, 404)
            /\ UNCHANGED <<users, portfolios, issued, revoked, replaced>>
       ELSE LET tok == FreshToken IN
            /\ tok \in Tokens
            /\ portfolios' = PutPortfolio(l, SharedDoc(portfolios[l], tok, Now))
            /\ issued' = issued + 1
            /\ resp' = Response("share", l, tok, 200)
            /\ replaced' = replaced \cup ({portfolios[l].shareToken} \cap Tokens)
            /\ UNCHANGED <<users, revoked>>

UnsharedDoc_KeepsToken(doc) ==
    [doc EXCEPT !.isPublic = FALSE]

\* the fields unsharePortfolio assigns before save()
UnsharedDoc(doc) ==
    [doc EXCEPT !.shareToken = NullToken, !.isPublic = FALSE]

\* POST /learners/portfolio/unshare
unsharePortfolio(l) ==
    /\ UNCHANGED exceptPortfolio
    /\ l \in users
    /\ IF ~HasPortfolio(l)
       THEN /\ resp' = Response("unshare", 0, Missing, 404)
            /\ UNCHANGED <<users, portfolios, issued, revoked, replaced>>
       ELSE LET old == portfolios[l]
                new == UnsharedDoc(old)
            IN  IF new.shareToken # old.shareToken
                   /\ IndexConflict(l, new.shareToken)
                THEN \* duplicate key error from save(): nothing is written
                     /\ resp' = Response("unshare", 0, Missing, 500)
                     /\ UNCHANGED <<users, portfolios, issued, revoked, replaced>>
                ELSE /\ portfolios' = PutPortfolio(l, new)
                     /\ revoked' = revoked \cup ({old.shareToken} \cap Tokens)
                     /\ resp' = Response("unshare", l, Missing, 200)
                     /\ UNCHANGED <<users, issued, replaced>>

\* DELETE /learners/portfolio
deletePortfolio(l) ==
    /\ UNCHANGED exceptPortfolio
    /\ l \in users
    /\ IF ~HasPortfolio(l)
       THEN /\ resp' = Response("delete", 0, Missing, 404)
            /\ UNCHANGED <<users, portfolios, issued, revoked, replaced>>
       ELSE /\ portfolios' = RemovePortfolio(l)
            /\ resp' = Response("delete", 0, Missing, 200)
            /\ UNCHANGED <<users, issued, revoked, replaced>>

\* views recorded over the portfolios of the learners in S (bounds the run)
RECURSIVE TotalViews(_)
TotalViews(S) ==
    IF S = {} THEN 0
    ELSE LET x == CHOOSE y \in S : TRUE
         IN  portfolios[x].views + TotalViews(S \ {x})

TrackedDoc_NoHistory(doc, ip) ==
    [doc EXCEPT !.views = @ + 1]

\* "Track view": views += 1 and one viewHistory entry
TrackedDoc(doc, ip) ==
    [doc EXCEPT !.views = @ + 1,
                !.viewHistory = Append(@, [ipAddress |-> ip])]

\* ids, in _id order, of the documents of Credential.find({ learnerId,
\* verificationStatus: "verified", isPublic: true })
PublicCredentials_AnyStatus(l) ==
    Ascending({c \in DOMAIN creds :
                  creds[c].learnerId = l /\ creds[c].isPublic})

PublicCredentials(l) ==
    Ascending({c \in DOMAIN creds :
                  /\ creds[c].learnerId = l
                  /\ creds[c].verificationStatus = "verified"
                  /\ creds[c].isPublic})

\* Achievement.find({ learnerId, isPublic: true })
IsPublicOf(l, a) == a.learnerId = l /\ a.isPublic

PublicAchievements(l) ==
    SelectSeq(achievements, LAMBDA a : IsPublicOf(l, a))

\* the two lists both finds of viewPortfolio give for learner l
FoundLists(l) ==
    [credentials |-> PublicCredentials(l),
     achievements |-> PublicAchievements(l)]

\* data.credentials and data.achievements of the response: the lists found,
\* each replaced by [] when the portfolio's section is switched off
ViewData(doc, lists) ==
    [credentials  |-> IF doc.sections.showCredentials
                      THEN lists.credentials ELSE <<>>,
     achievements |-> IF doc.sections.showAchievements
                      THEN lists.achievements ELSE <<>>]

ViewResponse(l, tok, doc, lists) ==
    [Response("view", l, tok, 200) EXCEPT !.data = <<ViewData(doc, lists)>>]

\* GET /portfolio/:token (public)
viewPortfolio(tok, ip) ==
    /\ UNCHANGED exceptPortfolio
    /\ LET found == FindShared(tok) IN
       IF found = {}
       THEN /\ resp' = Response("view", 0, tok, 404)
            /\ UNCHANGED <<users, portfolios, issued, revoked, replaced>>
       ELSE \E l \in found :
            IF l \notin users
            THEN \* populate("learnerId") and Learner.findById both give null
                 /\ resp' = Response("view", 0, tok, 404)
                 /\ UNCHANGED <<users, portfolios, issued, revoked, replaced>>
            ELSE /\ TotalViews(DOMAIN portfolios) < MaxViews
                 /\ portfolios' = PutPortfolio(l, TrackedDoc(portfolios[l], ip))
                 /\ resp' = ViewResponse(l, tok, portfolios[l], FoundLists(l))
                 /\ UNCHANGED <<users, issued, revoked, replaced>>

\* viewPortfolio awaits the store between its finds and its save(), so
\* views of the same portfolio interleave there.  A request in flight holds
\* the document it loaded.
IdleView ==
    [pc |-> "idle", lrn |-> 0, tok |-> 0, ip |-> "none", views |-> 0,
     lists |-> <<>>]

WInit == vreq = [r \in Reqs |-> IdleView]

\* viewPortfolio up to its save(): the finds
viewPortfolioFind(r, tok, ip) ==
    /\ UNCHANGED <<tvars, cvars, mvars, avars, evars, hvars>>
    /\ vreq[r].pc = "idle"
    /\ UNCHANGED <<users, portfolios, issued, revoked, replaced>>
    /\ LET found == FindShared(tok) IN
       IF found = {}
       THEN /\ resp' = Response("view", 0, tok, 404)
            /\ UNCHANGED vreq
       ELSE \E l \in found :
            IF l \notin users
            THEN /\ resp' = Response("view", 0, tok, 404)
                 /\ UNCHANGED vreq
            ELSE /\ vreq' = [vreq EXCEPT ![r] =
                                [pc |-> "loaded", lrn |-> l, tok |-> tok,
                                 ip |-> ip, views |-> portfolios[l].views,
                                 lists |-> <<FoundLists(l)>>]]
                 /\ UNCHANGED resp

\* the write of portfolio.save() after `views += 1` and `viewHistory.push`:
\* $set of views to the loaded value plus one, $push of the new entry
SavedView(doc, loaded) ==
    [doc EXCEPT !.views = loaded.views + 1,
                !.viewHistory = Append(@, [ipAddress |-> loaded.ip])]

\* viewPortfolio from its save() on
viewPortfolioSave(r) ==
    /\ UNCHANGED <<tvars, cvars, mvars, avars, evars, hvars>>
    /\ vreq[r].pc = "loaded"
    /\ vreq' = [vreq EXCEPT ![r] = IdleView]
    /\ UNCHANGED <<users, issued, revoked, replaced>>
    /\ IF ~HasPortfolio(vreq[r].lrn)
       THEN \* the document was deleted meanwhile: save() rejects
            /\ resp' = Response("view", 0, vreq[r].tok, 500)
            /\ UNCHANGED portfolios
       ELSE /\ Len(portfolios[vreq[r].lrn].viewHistory) < MaxViews
            /\ portfolios' = PutPortfolio(vreq[r].lrn,
                                 SavedView(portfolios[vreq[r].lrn], vreq[r]))
            /\ resp' = ViewResponse(vreq[r].lrn, vreq[r].tok,
                                   portfolios[vreq[r].lrn], vreq[r].lists[1])

\* the views of the shared portfolios, step by step
WNext ==
    \/ \E r \in Reqs, t \in Tokens, ip \in IPs : viewPortfolioFind(r, t, ip)
    \/ \E r \in Reqs : viewPortfolioSave(r)

\* DELETE /admin/users/:id : removes the user document only
deleteUser(l) ==
    /\ UNCHANGED exceptPortfolio
    /\ l \in users
    /\ users' = users \ {l}
    /\ resp' = Response("deleteUser", 0, Missing, 200)
    /\ UNCHANGED <<portfolios, issued, revoked, replaced>>

\* ------------------------------------------------------------ talent pool
\* The employer handlers await the store between their steps, so requests
\* interleave at every find / create / save.

IdleReq ==
    [pc |-> "idle", op |-> "none", emp |-> 0, lrn |-> 0,
     doc |-> 0, snap |-> <<>>, stale |-> FALSE]

TInit ==
    /\ pools = <<>>
    /\ treq = [r \in Reqs |-> IdleReq]

\* TalentPool.findOne({ employerId }): the first matching document, 0 if none
FindPool(e) ==
    LET hits == {i \in 1..Len(pools) : pools[i].employerId = e}
    IN  IF hits = {} THEN 0
        ELSE CHOOSE i \in hits : \A j \in hits : i <= j

\* talentPool.learners.some((l) => l.learnerId.toString() === learnerId)
InPool(learners, l) == \E i \in 1..Len(learners) : learners[i] = l

\* talentPool.learners.filter((l) => l.learnerId.toString() !== learnerId)
RECURSIVE WithoutLearner(_, _)
WithoutLearner(learners, l) ==
    IF learners = <<>> THEN <<>>
    ELSE IF Head(learners) = l THEN WithoutLearner(Tail(learners), l)
         ELSE <<Head(learners)>> \o WithoutLearner(Tail(learners), l)

\* a write to the learners array of document d bumps its version: the other
\* requests that hold d now hold an old version
MarkStale(r, d) ==
    [x \in Reqs |->
        IF x # r /\ treq[x].pc # "idle" /\ treq[x].doc = d
        THEN [treq[x] EXCEPT !.stale = TRUE] ELSE treq[x]]

Finish(rs, r) == [rs EXCEPT ![r] = IdleReq]

\* GET /employers/talent-pool : findOne, then create when there is none
getTalentPoolFind(r, e) ==
    /\ UNCHANGED exceptTalentPool
    /\ treq[r].pc = "idle"
    /\ LET d == FindPool(e) IN
       IF d = 0
       THEN treq' = [treq EXCEPT ![r] =
                        [IdleReq EXCEPT !.pc = "create", !.op = "get", !.emp = e]]
       ELSE treq' = treq      \* answers 200 with the document found
    /\ UNCHANGED pools

\* TalentPool.create({ employerId, learners: [] }) of either handler
createPool(r) ==
    /\ UNCHANGED exceptTalentPool
    /\ treq[r].pc = "create"
    /\ pools' = Append(pools, [employerId |-> treq[r].emp, learners |-> <<>>])
    /\ IF treq[r].op = "get"
       THEN treq' = Finish(treq, r)
       ELSE \* addToTalentPool goes on with the new, empty document: the
            \* membership check fails and the entry is pushed locally
            treq' = [treq EXCEPT ![r] =
                        [@ EXCEPT !.pc = "save", !.doc = Len(pools) + 1,
                                  !.snap = <<>>]]

\* POST /employers/talent-pool/add : findOne and the membership check on
\* the document read
addToTalentPoolFind(r, e, l) ==
    /\ UNCHANGED exceptTalentPool
    /\ treq[r].pc = "idle"
    /\ LET d == FindPool(e) IN
       IF d = 0
       THEN treq' = [treq EXCEPT ![r] =
                        [IdleReq EXCEPT !.pc = "create", !.op = "add",
                                        !.emp = e, !.lrn = l]]
       ELSE IF InPool(pools[d].learners, l)
            THEN treq' = treq      \* 400 "Learner already in talent pool"
            ELSE treq' = [treq EXCEPT ![r] =
                        [IdleReq EXCEPT !.pc = "save", !.op = "add", !.emp = e,
                              !.lrn = l, !.doc = d, !.snap = pools[d].learners]]
    /\ UNCHANGED pools

\* talentPool.save() after learners.push(): a $push on the stored document,
\* whatever it holds by now
addToTalentPoolSave(r) ==
    /\ UNCHANGED exceptTalentPool
    /\ treq[r].pc = "save" /\ treq[r].op = "add"
    /\ Len(pools[treq[r].doc].learners) < MaxPoolLen
    /\ pools' = [pools EXCEPT ![treq[r].doc].learners = Append(@, treq[r].lrn)]
    /\ treq' = Finish(MarkStale(r, treq[r].doc), r)

\* POST /employers/talent-pool/remove : findOne and the local filter
removeFromTalentPoolFind(r, e, l) ==
    /\ UNCHANGED exceptTalentPool
    /\ treq[r].pc = "idle"
    /\ LET d == FindPool(e) IN
       IF d = 0 \/ ~InPool(pools[d].learners, l)
       THEN treq' = treq      \* 404
       ELSE treq' = [treq EXCEPT ![r] =
                        [IdleReq EXCEPT !.pc = "save", !.op = "remove", !.emp = e,
                              !.lrn = l, !.doc = d,
                              !.snap = WithoutLearner(pools[d].learners, l)]]
    /\ UNCHANGED pools

\* talentPool.save() after the array was reassigned: a $set of the whole
\* array, which Mongoose guards with the document version (VersionError when
\* another write to the array came in between)
removeFromTalentPoolSave(r) ==
    /\ UNCHANGED exceptTalentPool
    /\ treq[r].pc = "save" /\ treq[r].op = "remove"
    /\ IF treq[r].stale
       THEN /\ pools' = pools
            /\ treq' = Finish(treq, r)
       ELSE /\ pools' = [pools EXCEPT ![treq[r].doc].learners = treq[r].snap]
            /\ treq' = Finish(MarkStale(r, treq[r].doc), r)

TNext ==
    \/ \E r \in Reqs, e \in Employers : getTalentPoolFind(r, e)
    \/ \E r \in Reqs : createPool(r)
    \/ \E r \in Reqs, e \in Employers, l \in Learners : addToTalentPoolFind(r, e, l)
    \/ \E r \in Reqs : addToTalentPoolSave(r)
    \/ \E r \in Reqs, e \in Employers, l \in Learners :
          removeFromTalentPoolFind(r, e, l)
    \/ \E r \in Reqs : removeFromTalentPoolSave(r)

\* ------------------------------------------------------------- AI service
\* Texts are strings. Letter case, trimming and substring search are spelled
\* out over their characters.
LowercaseLetters == "abcdefghijklmnopqrstuvwxyz"
UppercaseLetters == "ABCDEFGHIJKLMNOPQRSTUVWXYZ"
DigitChars == "0123456789"

CharAt(str, i) == SubSeq(str, i, i)

\* position of the one-character string ch in alphabet, 0 when absent
IndexIn(alphabet, ch) ==
    IF \E i \in 1..Len(alphabet) : CharAt(alphabet, i) = ch
    THEN CHOOSE i \in 1..Len(alphabet) : CharAt(alphabet, i) = ch
    ELSE 0

LowerOf(ch) ==
    LET i == IndexIn(UppercaseLetters, ch)
    IN  IF i > 0 THEN CharAt(LowercaseLetters, i) ELSE ch

UpperOf(ch) ==
    LET i == IndexIn(LowercaseLetters, ch)
    IN  IF i > 0 THEN CharAt(UppercaseLetters, i) ELSE ch

\* String.prototype.toLowerCase
RECURSIVE StrToLowerCase(_)
StrToLowerCase(str) ==
    IF Len(str) = 0 THEN ""
    ELSE LowerOf(CharAt(str, 1)) \o StrToLowerCase(SubSeq(str, 2, Len(str)))

\* String.prototype.includes
StrIncludes(str, sub) ==
    \E i \in 0..(Len(str) - Len(sub)) : SubSeq(str, i + 1, i + Len(sub)) = sub

\* String.prototype.trim (the only white space in the texts is the blank)
RECURSIVE StrTrim(_)
StrTrim(str) ==
    IF Len(str) = 0 THEN ""
    ELSE IF CharAt(str, 1) = " " THEN StrTrim(SubSeq(str, 2, Len(str)))
    ELSE IF CharAt(str, Len(str)) = " " THEN StrTrim(SubSeq(str, 1, Len(str) - 1))
    ELSE str

\* a value that may be undefined: <<>> is undefined, <<v>> is v
Undefined == <<>>
Defined(opt) == Len(opt) > 0
\* opt || ""
OrEmpty(opt) == IF Defined(opt) THEN opt[1] ELSE ""

\* how a call ends: with a value, or by throwing (a rejected promise)
Returned(v) == [threw |-> FALSE, value |-> v]
Thrown == [threw |-> TRUE, value |-> "TypeError"]

\* queryHuggingFace as its callers see it: it throws (network error,
\* timeout, error status), or returns the generated text, "" when the
\* response carries none
ApiFailure == [ok |-> FALSE, text |-> ""]
ApiText(t) == [ok |-> TRUE, text |-> t]

\* commonSkills of extractKeywords, in order
CommonSkills == <<
    "JavaScript", "Python", "Java", "C++", "C#", "PHP", "Ruby", "Go",
    "Rust", "Swift", "Kotlin", "TypeScript", "React", "Angular", "Vue",
    "HTML", "CSS", "SASS", "Bootstrap", "Tailwind", "jQuery", "Redux",
    "Next.js", "Node.js", "Express", "Django", "Flask", "Spring",
    "Laravel", "ASP.NET", "FastAPI", "NestJS", "MongoDB", "SQL",
    "PostgreSQL", "MySQL", "Redis", "Cassandra", "Oracle", "SQLite",
    "DynamoDB", "AWS", "Azure", "GCP", "Docker", "Kubernetes", "Jenkins",
    "CI/CD", "Terraform", "Ansible", "React Native", "Flutter", "iOS",
    "Android", "Xamarin", "Ionic", "Machine Learning", "Deep Learning",
    "AI", "Data Science", "TensorFlow", "PyTorch", "Scikit-learn",
    "Pandas", "NumPy", "Keras", "NLP", "Computer Vision", "Data Analysis",
    "Statistics", "Git", "GitHub", "GitLab", "REST API", "GraphQL",
    "Microservices", "Agile", "Scrum", "Testing", "Jest", "Selenium",
    "Webpack", "Linux", "Bash", "PowerShell"
>>

\* extractKeywords: the vocabulary entries occurring in the lower-cased text
extractKeywords(text) ==
    LET lowerText == StrToLowerCase(text)
    IN  SelectSeq(CommonSkills,
                  LAMBDA skill : StrIncludes(lowerText, StrToLowerCase(skill)))

\* categories of categorizSkill, in the order Object.entries visits them
SkillCategories == <<
    [category |-> "technical",
     terms |-> <<"programming", "web development", "data science",
                 "machine learning", "cloud computing", "database",
                 "frontend", "backend", "mobile development", "DevOps",
                 "cybersecurity", "networking">>],
    [category |-> "soft-skills",
     terms |-> <<"communication", "leadership", "teamwork",
                 "problem solving", "analytical thinking", "creativity",
                 "time management">>],
    [category |-> "management",
     terms |-> <<"project management", "team leadership",
                 "strategic planning", "resource management">>] >>

categorizSkill(skill) ==
    LET hit(c) == \E i \in 1..Len(SkillCategories[c].terms) :
                      StrIncludes(StrToLowerCase(skill),
                                  StrToLowerCase(SkillCategories[c].terms[i]))
    IN  IF \E c \in 1..Len(SkillCategories) : hit(c)
        THEN SkillCategories[CHOOSE c \in 1..Len(SkillCategories) :
                 hit(c) /\ \A d \in 1..(c - 1) : ~hit(d)].category
        ELSE "technical"

\* processSkillExtraction: the keywords, once each, with category and
\* confidence 0.8 (the sort by equal confidence keeps their order); the API
\* result itself is not used
processSkillExtraction(text, apiResult) ==
    LET keywords == extractKeywords(text)
    IN  [i \in 1..Len(keywords) |->
            [name |-> keywords[i], category |-> categorizSkill(keywords[i])]]

\* extractSkillsFallback calls the async extractKeywords without await:
\* `keywords` is a Promise, keywords.map is not a function, and the call
\* throws a TypeError
extractSkillsFallback(text) == Thrown

FirstTen(s) == SubSeq(s, 1, IF Len(s) < 10 THEN Len(s) ELSE 10)

\* extractSkills(text) with the outcome of its API call
extractSkills(text, api) ==
    IF Len(StrTrim(text)) = 0 THEN Returned(<<>>)
    ELSE IF api.ok THEN Returned(FirstTen(processSkillExtraction(text, api.text)))
    ELSE extractSkillsFallback(text)

\* typeDefaults of predictNSQFLevel and predictNSQFFromKeywords
TypeDefaults ==
    <<[type |-> "certificate", level |-> 5], [type |-> "diploma", level |-> 6],
      [type |-> "degree", level |-> 7], [type |-> "micro-credential", level |-> 4],
      [type |-> "badge", level |-> 3], [type |-> "other", level |-> 5]>>

\* typeDefaults is an object literal: a lookup also finds the members it
\* inherits from Object.prototype, which are functions or objects
ObjectPrototypeKeys ==
    {"constructor", "toString", "toLocaleString", "valueOf", "hasOwnProperty",
     "isPrototypeOf", "propertyIsEnumerable", "__proto__", "__defineGetter__",
     "__defineSetter__", "__lookupGetter__", "__lookupSetter__"}

\* stands for such an inherited member: a truthy value that is not a number
InheritedMember == 0 - 2

TypeDefault_OwnKeysOnly(type) ==
    IF Defined(type) /\ \E i \in 1..Len(TypeDefaults) : TypeDefaults[i].type = type[1]
    THEN TypeDefaults[CHOOSE i \in 1..Len(TypeDefaults) :
                          TypeDefaults[i].type = type[1]].level
    ELSE 5

\* typeDefaults[type] || 5
TypeDefault(type) ==
    IF Defined(type) /\ type[1] \in ObjectPrototypeKeys THEN InheritedMember
    ELSE TypeDefault_OwnKeysOnly(type)

\* levelKeywords of predictNSQFFromKeywords, by level
LevelKeywords == <<
    <<"basic", "introduction", "beginner", "fundamental", "elementary">>,
    <<"elementary", "primary", "basic skills", "foundational">>,
    <<"intermediate", "foundation", "core skills", "essential">>,
    <<"advanced foundation", "skilled", "competent", "proficient">>,
    <<"diploma", "advanced", "proficient", "skilled worker", "certificate">>,
    <<"bachelor", "degree", "graduate", "advanced diploma", "professional",
      "undergraduate">>,
    <<"postgraduate", "masters", "specialized", "expert",
      "advanced professional">>,
    <<"masters degree", "postgraduate diploma", "advanced professional",
      "mba">>,
    <<"doctoral", "phd", "research", "highly specialized", "doctorate">>,
    <<"doctorate", "phd", "research doctorate", "highest qualification",
      "post-doctoral">> >>

\* keywords.some((keyword) => lowerText.includes(keyword))
LevelHit(lowerText, level) ==
    \E i \in 1..Len(LevelKeywords[level]) :
        StrIncludes(lowerText, LevelKeywords[level][i])

ScanLevels_LowestFirst(lowerText, level) ==
    IF \E lv \in 1..level : LevelHit(lowerText, lv)
    THEN CHOOSE lv \in 1..level :
             LevelHit(lowerText, lv) /\ \A x \in 1..(lv - 1) : ~LevelHit(lowerText, x)
    ELSE 0

\* for (let level = 10; level >= 1; level--) ... return level; 0 when the
\* loop ends without returning
ScanLevels(lowerText, level) ==
    IF \E lv \in 1..level : LevelHit(lowerText, lv)
    THEN CHOOSE lv \in 1..level :
             LevelHit(lowerText, lv) /\ \A x \in (lv + 1)..level : ~LevelHit(lowerText, x)
    ELSE 0

predictNSQFFromKeywords(text, type) ==
    LET found == ScanLevels(StrToLowerCase(text), 10)
    IN  IF found > 0 THEN found ELSE TypeDefault(type)

\* \b of the regular expression: between positions p and p + 1 of text
\* exactly one side is a word character
IsWordChar(text, p) ==
    /\ p >= 1 /\ p <= Len(text)
    /\ \/ IndexIn(LowercaseLetters, CharAt(text, p)) > 0
       \/ IndexIn(UppercaseLetters, CharAt(text, p)) > 0
       \/ IndexIn(DigitChars, CharAt(text, p)) > 0
       \/ CharAt(text, p) = "_"

WordBoundary(text, p) == IsWordChar(text, p) # IsWordChar(text, p + 1)

\* /\b([1-9]|10)\b/ tried at position p: the number matched, 0 when none
MatchNumberAt(text, p) ==
    IF ~WordBoundary(text, p - 1) THEN 0
    ELSE IF /\ p <= Len(text)
            /\ IndexIn(DigitChars, CharAt(text, p)) > 1
            /\ WordBoundary(text, p)
         THEN IndexIn(DigitChars, CharAt(text, p)) - 1
    ELSE IF /\ p + 1 <= Len(text)
            /\ SubSeq(text, p, p + 1) = "10"
            /\ WordBoundary(text, p + 1)
         THEN 10
    ELSE 0

\* extractNumberFromText(result) for the string queryHuggingFace returns:
\* the first match, null (Missing) when the text is empty or has none
extractNumberFromText(result) ==
    IF \E p \in 1..Len(result) : MatchNumberAt(result, p) > 0
    THEN MatchNumberAt(result,
             CHOOSE p \in 1..Len(result) :
                 /\ MatchNumberAt(result, p) > 0
                 /\ \A q \in 1..(p - 1) : MatchNumberAt(result, q) = 0)
    ELSE Missing

\* `${title || ""} ${description || ""}`
CredentialText(data) == OrEmpty(data.title) \o " " \o OrEmpty(data.description)

\* predictNSQFLevel(credentialData) with the outcome of its API call (which
\* is not made when the text is empty)
predictNSQFLevel(data, api) ==
    LET credentialText == StrTrim(CredentialText(data))
    IN  IF Len(credentialText) = 0 THEN Returned(TypeDefault(data.type))
        ELSE IF ~api.ok
             THEN Returned(predictNSQFFromKeywords(
                               StrToLowerCase(CredentialText(data)), data.type))
        ELSE LET predictedLevel == extractNumberFromText(api.text)
             IN  IF predictedLevel = Missing \/ predictedLevel < 1 \/ predictedLevel > 10
                 THEN Returned(predictNSQFFromKeywords(credentialText, data.type))
                 ELSE Returned(predictedLevel)

analyzeCredential_NoCatch(description, skillApi, levelApi) ==
    LET extracted == extractSkills(description, skillApi)
        predicted == predictNSQFLevel([title |-> Undefined,
                                       description |-> <<description>>,
                                       type |-> Undefined], levelApi)
    IN  IF extracted.threw \/ predicted.threw
        THEN Thrown
        ELSE Returned([skills |-> extracted.value, nsqfLevel |-> predicted.value])

\* analyzeCredential(description): any exception of the two calls is caught
\* and answered with no skills and a null level (Missing)
analyzeCredential(description, skillApi, levelApi) ==
    LET extracted == extractSkills(description, skillApi)
        predicted == predictNSQFLevel([title |-> Undefined,
                                       description |-> <<description>>,
                                       type |-> Undefined], levelApi)
    IN  IF extracted.threw \/ predicted.threw
        THEN Returned([skills |-> <<>>, nsqfLevel |-> Missing])
        ELSE Returned([skills |-> extracted.value, nsqfLevel |-> predicted.value])

\* getAllRoleSkills(): the role catalog, in the order of its keys
AllRoleSkills == <<
    [role |-> "Software Developer",
     skills |-> <<
        "JavaScript", "Python", "Java", "Git", "SQL", "Data Structures",
        "Algorithms", "OOP", "Testing", "Debugging">>],
    [role |-> "Software Engineer",
     skills |-> <<
        "JavaScript", "Python", "Java", "Git", "SQL", "Data Structures",
        "Algorithms", "OOP", "Testing", "Debugging">>],
    [role |-> "Full Stack Developer",
     skills |-> <<
        "JavaScript", "React", "Node.js", "Express", "MongoDB", "SQL",
        "HTML", "CSS", "Git", "REST API">>],
    [role |-> "Data Scientist",
     skills |-> <<
        "Python", "Machine Learning", "Statistics", "SQL",
        "Data Visualization", "Pandas", "NumPy", "Scikit-learn", "R",
        "Deep Learning">>],
    [role |-> "DevOps Engineer",
     skills |-> <<
        "Docker", "Kubernetes", "CI/CD", "AWS", "Linux", "Git", "Jenkins",
        "Terraform", "Monitoring", "Scripting">>],
    [role |-> "Frontend Developer",
     skills |-> <<
        "JavaScript", "React", "HTML", "CSS", "TypeScript", "Webpack",
        "Git", "Responsive Design", "UI/UX", "Testing">>],
    [role |-> "Backend Developer",
     skills |-> <<
        "Node.js", "Python", "Java", "SQL", "MongoDB", "REST API",
        "Microservices", "Git", "Authentication", "Security">>],
    [role |-> "Mobile Developer",
     skills |-> <<
        "React Native", "Flutter", "iOS", "Android", "Mobile UI/UX",
        "API Integration", "Git", "App Store", "Testing">>],
    [role |-> "Cloud Architect",
     skills |-> <<
        "AWS", "Azure", "Cloud Security", "Networking",
        "Infrastructure as Code", "Kubernetes", "Docker", "Serverless",
        "Cost Optimization">>],
    [role |-> "Machine Learning Engineer",
     skills |-> <<
        "Python", "TensorFlow", "PyTorch", "Machine Learning",
        "Deep Learning", "Data Processing", "MLOps", "Statistics",
        "Model Deployment">>],
    [role |-> "Web Developer",
     skills |-> <<
        "HTML", "CSS", "JavaScript", "React", "Node.js", "Git",
        "Responsive Design", "REST API", "Database", "Testing">>],
    [role |-> "UI/UX Designer",
     skills |-> <<
        "Figma", "Adobe XD", "Sketch", "Prototyping", "User Research",
        "Wireframing", "Design Systems", "HTML", "CSS">>],
    [role |-> "Database Administrator",
     skills |-> <<
        "SQL", "MongoDB", "PostgreSQL", "MySQL", "Database Design",
        "Performance Tuning", "Backup", "Security", "Replication">>],
    [role |-> "QA Engineer",
     skills |-> <<
        "Testing", "Selenium", "Jest", "Test Automation", "Bug Tracking",
        "API Testing", "Performance Testing", "Git", "CI/CD">>],
    [role |-> "Product Manager",
     skills |-> <<
        "Product Strategy", "Agile", "Scrum", "User Stories",
        "Roadmapping", "Analytics", "Communication",
        "Stakeholder Management">>],
    [role |-> "Project Manager",
     skills |-> <<
        "Project Planning", "Agile", "Scrum", "Risk Management",
        "Budgeting", "Communication", "Leadership", "MS Project", "JIRA">>],
    [role |-> "Business Analyst",
     skills |-> <<
        "Requirements Analysis", "SQL", "Data Analysis", "Documentation",
        "Stakeholder Management", "Process Modeling", "Excel",
        "Communication">>],
    [role |-> "Data Analyst",
     skills |-> <<
        "SQL", "Excel", "Python", "Data Visualization", "Tableau",
        "Power BI", "Statistics", "Data Cleaning", "Reporting">>],
    [role |-> "Cybersecurity Specialist",
     skills |-> <<
        "Network Security", "Penetration Testing", "Cryptography",
        "Security Auditing", "Firewall", "SIEM", "Incident Response",
        "Compliance">>],
    [role |-> "Network Engineer",
     skills |-> <<
        "Networking", "TCP/IP", "Routing", "Switching", "Firewall", "VPN",
        "Network Security", "Troubleshooting", "Cisco", "Linux">>],
    [role |-> "System Administrator",
     skills |-> <<
        "Linux", "Windows Server", "Networking", "Scripting",
        "Virtualization", "Backup", "Security", "Monitoring",
        "Troubleshooting">>],
    [role |-> "AI Engineer",
     skills |-> <<
        "Python", "Machine Learning", "Deep Learning", "TensorFlow",
        "PyTorch", "NLP", "Computer Vision", "Model Deployment", "MLOps">>] >>

RoleNames == [i \in 1..Len(AllRoleSkills) |-> AllRoleSkills[i].role]

\* roleMap of normalizeRoleName, <<key, value>> in the order of its keys
RoleMap == <<
    <<"software engineer", "Software Engineer">>,
    <<"software engg", "Software Engineer">>,
    <<"software dev", "Software Developer">>,
    <<"swe", "Software Engineer">>,
    <<"full stack", "Full Stack Developer">>,
    <<"fullstack", "Full Stack Developer">>,
    <<"frontend", "Frontend Developer">>,
    <<"front end", "Frontend Developer">>,
    <<"backend", "Backend Developer">>,
    <<"back end", "Backend Developer">>,
    <<"data scientist", "Data Scientist">>, <<"ds", "Data Scientist">>,
    <<"ml engineer", "Machine Learning Engineer">>,
    <<"machine learning", "Machine Learning Engineer">>,
    <<"devops", "DevOps Engineer">>, <<"dev ops", "DevOps Engineer">>,
    <<"mobile dev", "Mobile Developer">>,
    <<"app developer", "Mobile Developer">>,
    <<"cloud engineer", "Cloud Architect">>,
    <<"web dev", "Web Developer">>, <<"web developer", "Web Developer">>,
    <<"ui designer", "UI/UX Designer">>,
    <<"ux designer", "UI/UX Designer">>,
    <<"dba", "Database Administrator">>, <<"qa", "QA Engineer">>,
    <<"tester", "QA Engineer">>, <<"pm", "Product Manager">>,
    <<"product", "Product Manager">>, <<"project", "Project Manager">>,
    <<"ba", "Business Analyst">>, <<"analyst", "Data Analyst">>,
    <<"security", "Cybersecurity Specialist">>,
    <<"network", "Network Engineer">>,
    <<"sysadmin", "System Administrator">>,
    <<"sys admin", "System Administrator">>,
    <<"ai engineer", "AI Engineer">>,
    <<"artificial intelligence", "AI Engineer">> >>

\* roleMap[lowerRole] for a key roleMap does not have itself but inherits
\* from Object.prototype: a function or object, named here by the property
\* key it turns into when it is used to index the catalog
InheritedRole(key) ==
    IF key = "__proto__" THEN "[object Object]"
    ELSE "function " \o key \o "() { [native code] }"

\* word.charAt(0).toUpperCase() + word.slice(1).toLowerCase()
Capitalize(word) ==
    IF Len(word) = 0 THEN ""
    ELSE UpperOf(CharAt(word, 1)) \o StrToLowerCase(SubSeq(word, 2, Len(word)))

\* role.split(" ").map(capitalize).join(" ")
RECURSIVE CapitalizeWords(_, _)
CapitalizeWords(rest, word) ==
    IF Len(rest) = 0 THEN Capitalize(word)
    ELSE IF CharAt(rest, 1) = " "
         THEN Capitalize(word) \o " " \o CapitalizeWords(SubSeq(rest, 2, Len(rest)), "")
         ELSE CapitalizeWords(SubSeq(rest, 2, Len(rest)), word \o CharAt(rest, 1))

\* lowerRole.includes(key) || key.includes(lowerRole)
PartialMatch(lowerRole, i) ==
    StrIncludes(lowerRole, RoleMap[i][1]) \/ StrIncludes(RoleMap[i][1], lowerRole)

\* normalizeRoleName(role): role.toLowerCase() throws when role is undefined
normalizeRoleName(role) ==
    IF ~Defined(role) THEN Thrown
    ELSE LET lowerRole == StrTrim(StrToLowerCase(role[1]))
         IN  IF \E i \in 1..Len(RoleMap) : RoleMap[i][1] = lowerRole
             THEN Returned(RoleMap[CHOOSE i \in 1..Len(RoleMap) :
                                       RoleMap[i][1] = lowerRole][2])
             ELSE IF lowerRole \in ObjectPrototypeKeys
             THEN Returned(InheritedRole(lowerRole))
             ELSE IF \E i \in 1..Len(RoleMap) : PartialMatch(lowerRole, i)
             THEN Returned(RoleMap[CHOOSE i \in 1..Len(RoleMap) :
                                       /\ PartialMatch(lowerRole, i)
                                       /\ \A k \in 1..(i - 1) :
                                              ~PartialMatch(lowerRole, k)][2])
             ELSE Returned(CapitalizeWords(role[1], ""))

\* getRequiredSkillsForRole(role): roleSkills[role] || []
getRequiredSkillsForRole(role) ==
    IF \E i \in 1..Len(AllRoleSkills) : AllRoleSkills[i].role = role
    THEN AllRoleSkills[CHOOSE i \in 1..Len(AllRoleSkills) :
                           AllRoleSkills[i].role = role].skills
    ELSE <<>>

\* confidences in tenths: 0, 0.2, 0.5 and 0.8 are 0, 2, 5 and 8
\* extractClassificationConfidence(result, "yes") for the string
\* queryHuggingFace returns: 0 for "", the default 0.5 for any other text
extractClassificationConfidence(result) == IF Len(result) = 0 THEN 0 ELSE 5

\* the catch branch of analyzeSkillMatches: simple string matching
StringMatch(currentSkills, requiredSkill) ==
    \E i \in 1..Len(currentSkills) :
        \/ StrIncludes(currentSkills[i], StrToLowerCase(requiredSkill))
        \/ StrIncludes(StrToLowerCase(requiredSkill), currentSkills[i])

\* one pass of the loop of analyzeSkillMatches, with the outcome of its API
\* call
SkillJudgment(currentSkills, requiredSkill, api) ==
    IF api.ok
    THEN LET confidence == extractClassificationConfidence(api.text)
         IN  [skill |-> requiredSkill, hasSkill |-> confidence > 5,
              confidence |-> confidence]
    ELSE LET hasSkill == StringMatch(currentSkills, requiredSkill)
         IN  [skill |-> requiredSkill, hasSkill |-> hasSkill,
              confidence |-> IF hasSkill THEN 8 ELSE 2]

analyzeSkillMatches_FailureSpreads(currentSkills, requiredSkills, apis) ==
    [i \in 1..Len(requiredSkills) |->
        SkillJudgment(currentSkills, requiredSkills[i],
            IF \E k \in 1..Len(requiredSkills) : ~apis[k].ok
            THEN [ok |-> FALSE, text |-> ""] ELSE apis[i])]

\* analyzeSkillMatches(currentSkills, requiredSkills); apis[i] is the
\* outcome of the i-th classification call
analyzeSkillMatches(currentSkills, requiredSkills, apis) ==
    [i \in 1..Len(requiredSkills) |->
        SkillJudgment(currentSkills, requiredSkills[i], apis[i])]

\* Math.round((matchedSkills / requiredSkills.length) * 100)
MatchPercentage(matched, total) == (200 * matched + total) \div (2 * total)

\* the result object of the analyses (recommendation texts left out);
\* availableRoles is Undefined where the object has no such field
GapResult(missing, pct, required, current, roles, target, judged) ==
    [missingSkills |-> missing, matchPercentage |-> pct,
     requiredSkills |-> required, currentSkills |-> current,
     availableRoles |-> roles, targetRole |-> target, skillMatches |-> judged]

\* analyzeSkillGapFallback(currentSkills, targetRole): rule-based analysis
analyzeSkillGapFallback(currentSkills, targetRole) ==
    LET normalized == normalizeRoleName(targetRole)
    IN  IF normalized.threw THEN Thrown
        ELSE LET requiredSkills == getRequiredSkillsForRole(normalized.value)
                 names == [i \in 1..Len(currentSkills) |->
                              StrToLowerCase(currentSkills[i])]
                 missing == SelectSeq(requiredSkills,
                                LAMBDA s : ~StringMatch(names, s))
             IN  IF Len(requiredSkills) = 0
                 THEN Returned(GapResult(<<>>, 0, <<>>, currentSkills,
                                   <<RoleNames>>, <<normalized.value>>, <<>>))
                 ELSE Returned(GapResult(missing,
                          MatchPercentage(Len(requiredSkills) - Len(missing),
                                          Len(requiredSkills)),
                          requiredSkills, currentSkills, Undefined,
                          <<normalized.value>>, <<>>))

\* analyzeSkillGap(currentSkills, targetRole); currentSkills are strings
analyzeSkillGap(currentSkills, targetRole, apis) ==
    IF Len(currentSkills) = 0
    THEN Returned(GapResult(<<>>, 0, <<>>, <<>>, Undefined, targetRole, <<>>))
    ELSE LET normalized == normalizeRoleName(targetRole)
         IN  IF normalized.threw
             THEN analyzeSkillGapFallback(currentSkills, targetRole)
             ELSE
             LET requiredSkills == getRequiredSkillsForRole(normalized.value)
                 names == [i \in 1..Len(currentSkills) |->
                              StrToLowerCase(currentSkills[i])]
                 judged == analyzeSkillMatches(names, requiredSkills, apis)
                 missingAt == {i \in 1..Len(requiredSkills) :
                                  judged[i].confidence < 5}
                 missing == SelectSeq(requiredSkills,
                               LAMBDA s : \E i \in missingAt : requiredSkills[i] = s)
             IN  IF Len(requiredSkills) = 0
                 THEN Returned(GapResult(<<>>, 0, <<>>, currentSkills,
                                   <<RoleNames>>, <<normalized.value>>, <<>>))
                 ELSE Returned(GapResult(missing,
                          MatchPercentage(Len(requiredSkills) - Len(missing),
                                          Len(requiredSkills)),
                          requiredSkills, currentSkills, Undefined,
                          <<normalized.value>>, judged))

\* ---- requests to the AI endpoints
\* req.body.text of POST /ai/extract-skills
ExtractTexts ==
    {Undefined, <<"">>, <<"   ">>,
     <<"Built REST API services with Node.js and MongoDB">>,
     <<"Pottery and ceramics">>}

\* outcomes of the skill-extraction call
ExtractApis == {ApiFailure, ApiText(""), ApiText("0.12 0.4")}

\* req.body of POST /ai/predict-nsqf (not validated by the route)
NsqfTitles == {Undefined, <<"Skilled">>}
NsqfDescriptions ==
    {Undefined, <<"">>, <<"PhD research doctorate">>,
     <<"Masters Degree in Data">>, <<"Basic welding">>,
     <<"Pottery workshop">>, <<"worker certificate">>}
NsqfTypes ==
    {Undefined, <<"certificate">>, <<"diploma">>, <<"degree">>,
     <<"micro-credential">>, <<"badge">>, <<"other">>, <<"workshop">>,
     <<"constructor">>}
NsqfBodies ==
    {[title |-> t, description |-> d, type |-> ty] :
        t \in NsqfTitles, d \in NsqfDescriptions, ty \in NsqfTypes}

\* outcomes of the level-prediction call
NsqfApis ==
    {ApiFailure, ApiText(""), ApiText("7"), ApiText("10"), ApiText("Level 3"),
     ApiText("12"), ApiText("0")}

\* the outcomes of the classification calls of one analysis, by call: all
\* alike, or all alike but one that fails
MaxRequired ==
    CHOOSE n \in 1..Len(CommonSkills) :
        /\ \A i \in 1..Len(AllRoleSkills) : Len(AllRoleSkills[i].skills) <= n
        /\ \E i \in 1..Len(AllRoleSkills) : Len(AllRoleSkills[i].skills) = n
ClassifyApis == {ApiFailure, ApiText(""), ApiText("LABEL_1")}
ApiPatterns ==
    {[i \in 1..MaxRequired |-> o] : o \in ClassifyApis}
    \cup {[i \in 1..MaxRequired |-> IF i = k THEN ApiFailure ELSE o] :
             k \in {1, 3, MaxRequired}, o \in ClassifyApis \ {ApiFailure}}

\* target roles typed by a client that are not names of the catalog
OtherRoles ==
    {Undefined, <<"">>, <<"Astronaut">>, <<"Bartender">>, <<"constructor">>,
     <<"full stack developer">>}

\* req.body of POST /ai/skill-gap as <<currentSkills, targetRole>>: each
\* catalog role with its own full list, and other roles and lists
GapBodies ==
    {<<AllRoleSkills[i].skills, <<AllRoleSkills[i].role>>>> :
        i \in 1..Len(AllRoleSkills)}
    \cup {<<cs, r>> : cs \in {<<>>, <<"React", "Node">>, <<"sql", "Tableau">>},
                     r \in OtherRoles \cup {<<"Data Analyst">>}}

\* what an AI endpoint answered (probe): the request, the HTTP status and
\* how the service call ended
AResponse(op, status, inp, out) ==
    [op |-> op, status |-> status, inp |-> inp, out |-> out]

NoRequest == [op |-> "none"]

AInit ==
    /\ areq = NoRequest
    /\ aresp = AResponse("none", 0, NoRequest, Returned(0))

\* POST /ai/extract-skills
aiController_extractSkills ==
    /\ UNCHANGED exceptAI
    /\ areq.op = "extractSkills"
    /\ areq' = NoRequest
    /\ IF ~Defined(areq.text) \/ Len(areq.text[1]) = 0
       THEN aresp' = AResponse("extractSkills", 400, areq, Returned(<<>>))
       ELSE LET out == extractSkills(areq.text[1], areq.api)
            IN  aresp' = AResponse("extractSkills",
                                   IF out.threw THEN 500 ELSE 200, areq, out)

\* POST /ai/predict-nsqf
aiController_predictNSQFLevel ==
    /\ UNCHANGED exceptAI
    /\ areq.op = "predictNSQFLevel"
    /\ areq' = NoRequest
    /\ LET out == predictNSQFLevel(areq.body, areq.api)
       IN  aresp' = AResponse("predictNSQFLevel",
                              IF out.threw THEN 500 ELSE 200, areq, out)

\* POST /ai/skill-gap (currentSkills is an array in every request drawn)
aiController_analyzeSkillGap ==
    /\ UNCHANGED exceptAI
    /\ areq.op = "analyzeSkillGap"
    /\ areq' = NoRequest
    /\ IF ~Defined(areq.targetRole) \/ Len(areq.targetRole[1]) = 0
       THEN aresp' = AResponse("analyzeSkillGap", 400, areq, Returned(<<>>))
       ELSE LET out == analyzeSkillGap(areq.currentSkills, areq.targetRole,
                                       areq.apis)
            IN  aresp' = AResponse("analyzeSkillGap",
                                   IF out.threw THEN 500 ELSE 200, areq, out)

\* a skill name of the Learner document as a string
RECURSIVE NameString(_)
NameString(chars) ==
    IF chars = <<>> THEN "" ELSE Head(chars) \o NameString(Tail(chars))

\* learner.skills.map((s) => s.name)
SkillNames(l) == [i \in 1..Len(skills[l]) |-> NameString(skills[l][i])]

\* POST /learners/skill-gap : the learner's own skill names, targetRole from
\* the body as it is
getSkillGapAnalysis ==
    /\ UNCHANGED exceptAI
    /\ areq.op = "getSkillGapAnalysis"
    /\ areq.learner \in users
    /\ areq' = NoRequest
    /\ LET out == analyzeSkillGap(SkillNames(areq.learner), areq.targetRole,
                                  areq.apis)
       IN  aresp' = AResponse("getSkillGapAnalysis",
                              IF out.threw THEN 500 ELSE 200, areq, out)

ANext ==
    \/ aiController_extractSkills
    \/ aiController_predictNSQFLevel
    \/ aiController_analyzeSkillGap
    \/ getSkillGapAnalysis

\* the request an AI endpoint is about to handle
AiRequest ==
    \/ \E t \in ExtractTexts, api \in ExtractApis :
          areq = [op |-> "extractSkills", text |-> t, api |-> api]
    \/ \E b \in NsqfBodies, api \in NsqfApis :
          areq = [op |-> "predictNSQFLevel", body |-> b, api |-> api]
    \/ \E b \in GapBodies, apis \in ApiPatterns :
          areq = [op |-> "analyzeSkillGap", currentSkills |-> b[1],
                  targetRole |-> b[2], apis |-> apis]
    \/ \E l \in Learners, r \in OtherRoles \cup {<<"Full Stack Developer">>},
          apis \in ApiPatterns :
          areq = [op |-> "getSkillGapAnalysis", learner |-> l,
                  targetRole |-> r, apis |-> apis]

\* ------------------------------------------------------------ credentials
Institutions == {"inst-A", "inst-B"}
CredNumbers == {"CN-1", "CN-2"}

\* req.user of the credential routes behind restrictTo("institution",
\* "admin"): an institution user carries its institution in tenantId (an
\* ObjectId), the admin has none
Actors ==
    {[id |-> i, role |-> "institution", tenantId |-> i] : i \in Institutions}
    \cup {[id |-> "admin", role |-> "admin", tenantId |-> "none"]}

\* enum of credentialSchema.verificationStatus
Statuses == {"pending", "verified", "rejected", "expired"}
\* req.body.status of PUT /credentials/:id/verify is not validated by the
\* route: any string arrives
BodyStatuses == Statuses \cup {"approved"}

\* req.body of PUT /credentials/:id (not validated by the route), reduced
\* to three of the fields the handler copies (isPublic, credentialNumber,
\* description) and three it does not (verificationStatus, institutionId,
\* nsqfLevel); <<>> is an absent field
NoFields ==
    [isPublic |-> <<>>, credentialNumber |-> <<>>, description |-> <<>>,
     verificationStatus |-> <<>>, institutionId |-> <<>>, nsqfLevel |-> <<>>]

UpdateBodies ==
    {[NoFields EXCEPT !.isPublic = p, !.verificationStatus = v] :
        p \in BodyIsPublic, v \in {<<>>, <<"verified">>, <<"pending">>}}
    \cup {[NoFields EXCEPT !.credentialNumber = <<n>>, !.institutionId = i] :
             n \in CredNumbers, i \in {<<>>, <<"inst-B">>}}
    \cup {[NoFields EXCEPT !.description = <<"Pottery II">>, !.nsqfLevel = <<9>>,
                           !.verificationStatus = <<"verified">>]}

\* req.body.description of POST /credentials (required by the validator)
\* and the outcomes of the two external calls of its analysis
CredDescriptions == {"Advanced diploma in React and Node.js", "Pottery"}
CredSkillApis == {ApiFailure, ApiText("0.12 0.4")}
CredLevelApis == {ApiFailure, ApiText(""), ApiText("7"), ApiText("12")}

\* aiService.analyzeCredential(description) for these requests, by
\* description and outcome of the calls
CredentialAnalyses ==
    [d \in CredDescriptions |-> [sa \in CredSkillApis |->
        [la \in CredLevelApis |-> analyzeCredential(d, sa, la)]]]

\* what a credential endpoint answered (probe); req holds, for a creation,
\* whether the number was taken and how the external calls ended
CResponse(op, id, status) ==
    [op |-> op, id |-> id, status |-> status, req |-> <<>>]

CreateResponse(id, status, taken, skillApi, levelApi) ==
    [CResponse("create", id, status) EXCEPT
        !.req = <<[numberTaken |-> taken, skillApi |-> skillApi,
                   levelApi |-> levelApi]>>]

CInit ==
    /\ creds = <<>>
    /\ nextCred = 0
    /\ cresp = CResponse("none", 0, 0)

\* Credential.findById(req.params.id)
HasCredential(c) == c \in DOMAIN creds

PutCredential(c, doc) ==
    [x \in DOMAIN creds \cup {c} |-> IF x = c THEN doc ELSE creds[x]]

RemoveCredentials(S) == [x \in DOMAIN creds \ S |-> creds[x]]

\* unique index on credentialNumber
NumberTaken(c, num) ==
    \E x \in DOMAIN creds : x # c /\ creds[x].credentialNumber = num

\* JavaScript a !== b for a string a and an ObjectId b: values of different
\* types are never strictly equal
StringNotStrictEqualObjectId(str, oid) == TRUE

\* "Only issuing institution or admin can update"
UpdateForbidden(actor, doc) ==
    /\ actor.role # "admin"
    /\ StringNotStrictEqualObjectId(doc.institutionId, actor.tenantId)

\* POST /credentials (institution only), with a body the validator accepts
\* and an uploaded file; an exception ends in the error handler
createCredential(actor, l, num, description, skillApi, levelApi) ==
    /\ UNCHANGED exceptCredential
    /\ actor.role = "institution"
    /\ nextCred < MaxCreds
    /\ LET aiAnalysis == CredentialAnalyses[description][skillApi][levelApi]
           taken == NumberTaken(0, num)
       IN  IF aiAnalysis.threw \/ taken
           THEN /\ cresp' = CreateResponse(0, 500, taken, skillApi, levelApi)
                /\ UNCHANGED <<creds, nextCred>>
           ELSE /\ creds' = PutCredential(nextCred + 1,
                     [learnerId |-> l, institutionId |-> actor.tenantId,
                      credentialNumber |-> num, description |-> description,
                      skills |-> aiAnalysis.value.skills,
                      nsqfLevel |-> aiAnalysis.value.nsqfLevel,
                      verificationStatus |-> "pending", verifiedBy |-> "none",
                      isPublic |-> FALSE])
                /\ nextCred' = nextCred + 1
                /\ cresp' = CreateResponse(nextCred + 1, 201, taken,
                                           skillApi, levelApi)

\* allowed.forEach(field => if (req.body[field] !== undefined) ...)
UpdatedDoc_CopiesBody(doc, body) ==
    [doc EXCEPT
        !.isPublic = IF Len(body.isPublic) > 0 THEN body.isPublic[1] ELSE @,
        !.credentialNumber =
            IF Len(body.credentialNumber) > 0 THEN body.credentialNumber[1] ELSE @,
        !.description =
            IF Len(body.description) > 0 THEN body.description[1] ELSE @,
        !.verificationStatus =
            IF Len(body.verificationStatus) > 0
            THEN body.verificationStatus[1] ELSE @,
        !.institutionId =
            IF Len(body.institutionId) > 0 THEN body.institutionId[1] ELSE @,
        !.nsqfLevel = IF Len(body.nsqfLevel) > 0 THEN body.nsqfLevel[1] ELSE @]

UpdatedDoc(doc, body) ==
    [doc EXCEPT
        !.isPublic = IF Len(body.isPublic) > 0 THEN body.isPublic[1] ELSE @,
        !.credentialNumber =
            IF Len(body.credentialNumber) > 0 THEN body.credentialNumber[1] ELSE @,
        !.description =
            IF Len(body.description) > 0 THEN body.description[1] ELSE @]

\* PUT /credentials/:id
updateCredential(actor, c, body) ==
    /\ UNCHANGED exceptCredential
    /\ IF ~HasCredential(c)
       THEN /\ cresp' = CResponse("update", c, 404)
            /\ UNCHANGED <<creds, nextCred>>
       ELSE IF UpdateForbidden(actor, creds[c])
            THEN /\ cresp' = CResponse("update", c, 403)
                 /\ UNCHANGED <<creds, nextCred>>
            ELSE IF NumberTaken(c, UpdatedDoc(creds[c], body).credentialNumber)
            THEN \* save() fails on the unique index
                 /\ cresp' = CResponse("update", c, 500)
                 /\ UNCHANGED <<creds, nextCred>>
            ELSE /\ creds' = PutCredential(c, UpdatedDoc(creds[c], body))
                 /\ cresp' = CResponse("update", c, 200)
                 /\ UNCHANGED nextCred

\* the fields verifyCredential assigns before save()
VerifiedDoc(doc, status, actor) ==
    [doc EXCEPT !.verificationStatus = status, !.verifiedBy = actor.id]

\* PUT /credentials/:id/verify
verifyCredential(actor, c, status) ==
    /\ UNCHANGED exceptCredential
    /\ IF ~HasCredential(c)
       THEN /\ cresp' = CResponse("verify", c, 404)
            /\ UNCHANGED <<creds, nextCred>>
       ELSE IF status \notin Statuses
            THEN \* save() fails the schema's enum validator
                 /\ cresp' = CResponse("verify", c, 500)
                 /\ UNCHANGED <<creds, nextCred>>
            ELSE /\ creds' = PutCredential(c, VerifiedDoc(creds[c], status, actor))
                 /\ cresp' = CResponse("verify", c, 200)
                 /\ UNCHANGED nextCred

\* DELETE /credentials/:id
deleteCredential(actor, c) ==
    /\ UNCHANGED exceptCredential
    /\ IF ~HasCredential(c)
       THEN /\ cresp' = CResponse("delete", c, 404)
            /\ UNCHANGED <<creds, nextCred>>
       ELSE /\ creds' = RemoveCredentials({c})
            /\ cresp' = CResponse("delete", c, 200)
            /\ UNCHANGED nextCred

\* the credentials deleteAccount deletes: its loop calls deleteOne() on
\* every credential of the learner; the destroy of a credential's file may
\* throw (for the credentials in failing), which the loop catches and logs
AccountCredentials_StopsOnError(l, failing) ==
    {c \in DOMAIN creds :
        /\ creds[c].learnerId = l
        /\ \A f \in failing : creds[f].learnerId = l => c < f}

AccountCredentials(l, failing) ==
    {c \in DOMAIN creds : creds[c].learnerId = l}

\* Achievement.deleteMany({ learnerId })
NotOf(l, a) == a.learnerId # l

\* DELETE /learners/profile : the learner's credentials, portfolio,
\* achievements and Learner/User document are deleted
deleteAccount(l, failing) ==
    /\ UNCHANGED <<tvars, mvars, avars, evars, wvars>>
    /\ l \in users
    /\ failing \subseteq DOMAIN creds
    /\ creds' = RemoveCredentials(AccountCredentials(l, failing))
    /\ portfolios' = RemovePortfolio(l)
    /\ achievements' = SelectSeq(achievements, LAMBDA a : NotOf(l, a))
    /\ users' = users \ {l}
    /\ resp' = Response("deleteAccount", 0, Missing, 200)
    /\ UNCHANGED <<issued, revoked, replaced, nextCred, cresp>>

CredIds == 1..MaxCreds

\* the creations alone
CreationNext ==
    \E a \in Actors, l \in Learners, n \in CredNumbers,
       d \in CredDescriptions, sa \in CredSkillApis, la \in CredLevelApis :
       createCredential(a, l, n, d, sa, la)

\* the updates alone
UpdateNext ==
    \E a \in Actors, c \in CredIds, b \in UpdateBodies : updateCredential(a, c, b)

CNext ==
    \/ CreationNext
    \/ UpdateNext
    \/ \E a \in Actors, c \in CredIds, st \in BodyStatuses :
          verifyCredential(a, c, st)
    \/ \E a \in Actors, c \in CredIds : deleteCredential(a, c)

\* --------------------------------------------------------------- matching
\* Skill names are strings: sequences of characters.
React == <<"R", "e", "a", "c", "t">>
Node == <<"N", "o", "d", "e">>
NodeJs == <<"N", "o", "d", "e", ".", "j", "s">>
Java == <<"J", "a", "v", "a">>
react == <<"r", "e", "a", "c", "t">>
node == <<"n", "o", "d", "e">>
docker == <<"d", "o", "c", "k", "e", "r">>
javascript == <<"j", "a", "v", "a", "s", "c", "r", "i", "p", "t">>

\* learner.skills (names) a learner document may hold
SkillLists == << <<>>, <<React, Node>>, <<NodeJs>>, <<Java>> >>

\* Learner collections the matching requests are run against: the lists
\* above dealt out to the learners in turn, from each starting point
SkillStores ==
    {[l \in Learners |-> SkillLists[((l + k) % Len(SkillLists)) + 1]] :
        k \in 1..Len(SkillLists)}

\* req.body of POST /employers/jobs/create (not validated by the route):
\* requiredSkills (names), minNSQFLevel (Missing when absent), status
JobBodies ==
    {[requiredSkills |-> rs, minNSQFLevel |-> lv, status |-> "active"] :
        rs \in {<<>>, <<react, node, docker>>, <<NodeJs, react>>,
                <<javascript, docker>>},
        lv \in {Missing, 6}}
    \cup {[requiredSkills |-> <<node>>, minNSQFLevel |-> Missing,
           status |-> "draft"],
          [requiredSkills |-> <<react>>, minNSQFLevel |-> 0,
           status |-> "active"],
          [requiredSkills |-> <<react, node, docker, javascript, NodeJs>>,
           minNSQFLevel |-> Missing, status |-> "active"]}

SampleCredential(l, num, level) ==
    [learnerId |-> l, institutionId |-> "inst-A", credentialNumber |-> num,
     description |-> "Pottery", skills |-> <<>>, nsqfLevel |-> level,
     verificationStatus |-> "pending",
     verifiedBy |-> "none", isPublic |-> FALSE]

\* Credential collections the matching requests are run against
CredentialStores ==
    {<<>>,
     <<SampleCredential(1, "CN-1", 7)>>,
     <<SampleCredential(1, "CN-1", 3), SampleCredential(1, "CN-2", 6)>>,
     <<SampleCredential(2, "CN-1", Missing)>>}

\* String.prototype.toLowerCase on the characters in use
LowerChar(ch) ==
    CASE ch = "R" -> "r"
      [] ch = "N" -> "n"
      [] ch = "J" -> "j"
      [] OTHER -> ch

toLowerCase(str) == [i \in 1..Len(str) |-> LowerChar(str[i])]

\* String.prototype.includes: sub occurs in str (the empty string always does)
includes(str, sub) ==
    \E i \in 0..(Len(str) - Len(sub)) : SubSeq(str, i + 1, i + Len(sub)) = sub

LowerAll(names) == [i \in 1..Len(names) |-> toLowerCase(names[i])]

SkillMatches_OneWay(learnerSkills, reqSkill) ==
    \E i \in 1..Len(learnerSkills) : includes(learnerSkills[i], reqSkill)

\* learnerSkills.some((ls) => ls.includes(reqSkill) || reqSkill.includes(ls))
SkillMatches(learnerSkills, reqSkill) ==
    \E i \in 1..Len(learnerSkills) :
        includes(learnerSkills[i], reqSkill) \/ includes(reqSkill, learnerSkills[i])

\* requiredSkills.forEach(... matchedSkills++ ...)
RECURSIVE CountMatched(_, _)
CountMatched(learnerSkills, requiredSkills) ==
    IF requiredSkills = <<>> THEN 0
    ELSE (IF SkillMatches(learnerSkills, Head(requiredSkills)) THEN 1 ELSE 0)
         + CountMatched(learnerSkills, Tail(requiredSkills))

\* JavaScript numbers as the handlers produce them: NaN, or the rational
\* num/den (den > 0)
NaN == [nan |-> TRUE, num |-> 0, den |-> 1]
Number(n, d) == [nan |-> FALSE, num |-> n, den |-> d]

\* (matchedSkills / requiredSkills.length) * 100; 0 / 0 is NaN
SkillMatchPercentage(matched, total) ==
    IF total = 0 THEN NaN ELSE Number(matched * 100, total)

\* Math.max(...credentials.map((c) => c.nsqfLevel || 0), 0)
RECURSIVE MaxLevel(_)
MaxLevel(levels) ==
    IF levels = <<>> THEN 0
    ELSE LET h == IF Head(levels) = Missing THEN 0 ELSE Head(levels)
             t == MaxLevel(Tail(levels))
         IN  IF h > t THEN h ELSE t

\* Credential.find({ learnerId }) mapped to nsqfLevel, in _id order
RECURSIVE LevelsFrom(_, _)
LevelsFrom(l, c) ==
    IF c > nextCred THEN <<>>
    ELSE (IF c \in DOMAIN creds /\ creds[c].learnerId = l
          THEN <<creds[c].nsqfLevel>> ELSE <<>>) \o LevelsFrom(l, c + 1)

MaxNSQFLevel(l) == MaxLevel(LevelsFrom(l, 1))

NsqfMatch_Always(maxLevel, job) == TRUE

\* maxNSQFLevel >= (job.minNSQFLevel || 0)
NsqfMatch(maxLevel, job) ==
    maxLevel >= (IF job.minNSQFLevel = Missing THEN 0 ELSE job.minNSQFLevel)

MatchScore_Inverted(pct, nsqfMatch) ==
    IF pct.nan THEN [nan |-> TRUE, num |-> 0, den |-> 1]
    ELSE [nan |-> FALSE, den |-> 1,
          num |-> (IF nsqfMatch THEN 100 ELSE 70) - (7 * pct.num) \div (10 * pct.den)]

\* Math.round(skillMatchPercentage * 0.7 + (nsqfMatch ? 30 : 0)): NaN stays
\* NaN; otherwise the integer nearest to the sum, halves rounded up. The sum
\* is taken exactly; the double-precision evaluation gives the same integer
\* for every list of fewer than 20 required skills.
MatchScore(pct, nsqfMatch) ==
    IF pct.nan THEN NaN
    ELSE LET bonus == IF nsqfMatch THEN 30 ELSE 0
         IN  Number((2 * (7 * pct.num + 10 * bonus * pct.den) + 10 * pct.den)
                        \div (20 * pct.den), 1)

\* matchScore >= 40: a comparison with NaN is false
AtLeast(x, k) == ~x.nan /\ x.num >= k * x.den

\* one pass of the loop of getJobMatches / matchLearnerToJobs
Evaluate(l, j) ==
    LET learnerSkills  == LowerAll(skills[l])
        requiredSkills == LowerAll(jobs[j].requiredSkills)
        matched  == CountMatched(learnerSkills, requiredSkills)
        pct      == SkillMatchPercentage(matched, Len(requiredSkills))
        maxLevel == MaxNSQFLevel(l)
        nsqf     == NsqfMatch(maxLevel, jobs[j])
    IN  [learner |-> l, job |-> j,
         matchedSkills |-> matched,
         totalRequiredSkills |-> Len(requiredSkills),
         skillMatchPercentage |-> pct,
         nsqfLevel |-> maxLevel, nsqfMatch |-> nsqf,
         matchScore |-> MatchScore(pct, nsqf)]

\* if (matchScore >= 40) matches.push(...)
Pushed(evals) == SelectSeq(evals, LAMBDA m : AtLeast(m.matchScore, 40))

\* matches.sort((a, b) => b.matchScore - a.matchScore): stable, descending
RECURSIVE InsertByScore(_, _)
InsertByScore(sorted, m) ==
    IF sorted = <<>> THEN <<m>>
    ELSE IF Head(sorted).matchScore.num >= m.matchScore.num
         THEN <<Head(sorted)>> \o InsertByScore(Tail(sorted), m)
         ELSE <<m>> \o sorted

RECURSIVE SortByScore(_)
SortByScore(ms) ==
    IF ms = <<>> THEN <<>>
    ELSE InsertByScore(SortByScore(SubSeq(ms, 1, Len(ms) - 1)), ms[Len(ms)])

\* matches.slice(0, 20)
TopMatches == 20

Slice_Last(ms, k) == SubSeq(ms, IF Len(ms) < k THEN 1 ELSE Len(ms) - k + 1, Len(ms))

Slice(ms, k) == SubSeq(ms, 1, IF Len(ms) < k THEN Len(ms) ELSE k)

MResponse(op, id, status, data) ==
    [op |-> op, id |-> id, status |-> status, data |-> data]

MInit ==
    /\ skills = [l \in Learners |-> <<>>]
    /\ jobs = <<>>
    /\ nextJob = 0
    /\ mcalc = <<>>
    /\ mresp = MResponse("none", 0, 0, <<>>)

\* the validators of jobSchema that Job.create runs on the fields modelled:
\* minNSQFLevel, when given, lies in 1..10; status is one of the enum
ValidJob(body) ==
    /\ body.minNSQFLevel = Missing \/ body.minNSQFLevel \in 1..10
    /\ body.status \in {"active", "closed", "draft"}

\* { ...a, ...b }: the properties of a, overridden and extended by those of b
Spread(a, b) ==
    [x \in DOMAIN a \cup DOMAIN b |-> IF x \in DOMAIN b THEN b[x] ELSE a[x]]

\* the document Job.create stores for jobData: the schema default of
\* invitedLearners, then the fields of jobData
NewJob(jobData) == Spread([invitedLearners |-> <<>>], jobData)

\* POST /employers/jobs/create : employerId is taken from the session
createJob(e, body) ==
    /\ UNCHANGED exceptMatching
    /\ nextJob < MaxJobs
    /\ LET jobData == Spread(body, [employerId |-> e])
       IN  IF ~ValidJob(jobData)
           THEN /\ mresp' = MResponse("createJob", 0, 500, <<>>)
                /\ UNCHANGED <<jobs, nextJob>>
           ELSE /\ jobs' = [x \in DOMAIN jobs \cup {nextJob + 1} |->
                              IF x = nextJob + 1 THEN NewJob(jobData)
                              ELSE jobs[x]]
                /\ nextJob' = nextJob + 1
                /\ mresp' = MResponse("createJob", nextJob + 1, 201, <<>>)
    /\ UNCHANGED <<skills, mcalc>>

\* GET /employers/matches?jobId=
getJobMatches(e, j) ==
    /\ UNCHANGED exceptMatching
    /\ IF ~(j \in DOMAIN jobs /\ jobs[j].employerId = e)
       THEN /\ mresp' = MResponse("getJobMatches", j, 404, <<>>)
            /\ mcalc' = <<>>
       ELSE LET learners == Ascending(users)
                evals == [i \in 1..Len(learners) |-> Evaluate(learners[i], j)]
            IN  /\ mcalc' = evals
                /\ mresp' = MResponse("getJobMatches", j, 200,
                                Slice(SortByScore(Pushed(evals)), TopMatches))
    /\ UNCHANGED <<skills, jobs, nextJob>>

\* POST /ai/job-match (learner): every active job, no slice
matchLearnerToJobs(l) ==
    /\ UNCHANGED exceptMatching
    /\ l \in users
    /\ LET active == Ascending({j \in DOMAIN jobs : jobs[j].status = "active"})
           evals == [i \in 1..Len(active) |-> Evaluate(l, active[i])]
       IN  /\ mcalc' = evals
           /\ mresp' = MResponse("matchLearnerToJobs", l, 200,
                           SortByScore(Pushed(evals)))
    /\ UNCHANGED <<skills, jobs, nextJob>>

JobIds == 1..MaxJobs

MNext ==
    \/ \E e \in Employers, b \in JobBodies : createJob(e, b)
    \/ \E e \in Employers, j \in JobIds : getJobMatches(e, j)
    \/ \E l \in Learners : matchLearnerToJobs(l)

\* ------------------------------------------------------- job management
\* Job.findOne({ _id, employerId: req.user.id }) finds a document
OwnJob(e, j) == j \in DOMAIN jobs /\ jobs[j].employerId = e

\* GET /employers/jobs/:id
getJob(e, j) ==
    /\ UNCHANGED exceptMatching
    /\ mresp' = IF OwnJob(e, j)
                THEN MResponse("getJob", j, 200, <<jobs[j]>>)
                ELSE MResponse("getJob", j, 404, <<>>)
    /\ UNCHANGED <<skills, jobs, nextJob, mcalc>>

\* req.body of PUT /employers/jobs/:id, passed to findOneAndUpdate as it
\* is: any path of jobSchema, employerId included
JobUpdates ==
    {[status |-> s] : s \in {"closed", "archived"}}
    \cup {[minNSQFLevel |-> 4, requiredSkills |-> <<react>>]}
    \cup {[employerId |-> o] : o \in Employers}
    \cup {[employerId |-> o, status |-> "draft"] : o \in Employers}

\* runValidators: the validators of the paths the update sets
ValidUpdate(body) ==
    /\ "minNSQFLevel" \in DOMAIN body => body.minNSQFLevel \in 1..10
    /\ "status" \in DOMAIN body
          => body.status \in {"active", "closed", "draft"}

\* PUT /employers/jobs/:id
updateJob(e, j, body) ==
    /\ UNCHANGED exceptMatching
    /\ IF ~OwnJob(e, j)
       THEN /\ mresp' = MResponse("updateJob", j, 404, <<>>)
            /\ UNCHANGED jobs
       ELSE IF ~ValidUpdate(body)
       THEN /\ mresp' = MResponse("updateJob", j, 500, <<>>)
            /\ UNCHANGED jobs
       ELSE /\ jobs' = [jobs EXCEPT ![j] = Spread(@, body)]
            /\ mresp' = MResponse("updateJob", j, 200, <<jobs'[j]>>)
    /\ UNCHANGED <<skills, nextJob, mcalc>>

\* DELETE /employers/jobs/:id
deleteJob(e, j) ==
    /\ UNCHANGED exceptMatching
    /\ IF ~OwnJob(e, j)
       THEN /\ mresp' = MResponse("deleteJob", j, 404, <<>>)
            /\ UNCHANGED jobs
       ELSE /\ jobs' = [x \in DOMAIN jobs \ {j} |-> jobs[x]]
            /\ mresp' = MResponse("deleteJob", j, 200, <<>>)
    /\ UNCHANGED <<skills, nextJob, mcalc>>

\* POST /employers/invite/:learnerId with req.body.jobId
inviteLearner(e, l, j) ==
    /\ UNCHANGED exceptMatching
    /\ IF ~OwnJob(e, j) \/ l \notin users
       THEN /\ mresp' = MResponse("inviteLearner", j, 404, <<>>)
            /\ UNCHANGED jobs
       ELSE /\ jobs' = IF \E i \in DOMAIN jobs[j].invitedLearners :
                             jobs[j].invitedLearners[i] = l
                       THEN jobs
                       ELSE [jobs EXCEPT ![j].invitedLearners = Append(@, l)]
            /\ mresp' = MResponse("inviteLearner", j, 200, <<l>>)
    /\ UNCHANGED <<skills, nextJob, mcalc>>

\* bodies of createJob that also carry an employerId of their own
CreateBodies ==
    JobBodies
    \cup {Spread([requiredSkills |-> <<react>>, minNSQFLevel |-> Missing,
                  status |-> "active"], [employerId |-> o]) : o \in Employers}

JNext ==
    \/ \E e \in Employers, b \in CreateBodies : createJob(e, b)
    \/ \E e \in Employers, j \in JobIds : getJob(e, j)
    \/ \E e \in Employers, j \in JobIds, b \in JobUpdates : updateJob(e, j, b)
    \/ \E e \in Employers, j \in JobIds : deleteJob(e, j)
    \/ \E e \in Employers, l \in Learners, j \in JobIds : inviteLearner(e, l, j)
    \/ \E e \in Employers, j \in JobIds : getJobMatches(e, j)

\* ------------------------------------------------ employer verification
\* credential numbers an employer may send: the stored ones and one that no
\* credential carries
VerifyNumbers == CredNumbers \cup {"CN-9"}

\* req.body.credentialNumbers of POST /employers/bulk-verify: arrays of up
\* to MaxBatch numbers, the empty array included
RECURSIVE BatchesOf(_)
BatchesOf(n) ==
    IF n = 0 THEN {<<>>}
    ELSE {Append(b, x) : b \in BatchesOf(n - 1), x \in VerifyNumbers}

Batches == UNION {BatchesOf(n) : n \in 0..MaxBatch}

VResponse(op, status, inp, body) ==
    [op |-> op, status |-> status, inp |-> inp, body |-> body]

EInit ==
    /\ credentialsVerified = [e \in Employers |-> 0]
    /\ vresp = VResponse("none", 0, <<>>, <<>>)

HInit == achievements = <<>>

\* Credential.findOne({ credentialNumber }): the _id found, 0 for null
FindByNumber(num) ==
    IF \E c \in DOMAIN creds : creds[c].credentialNumber = num
    THEN CHOOSE c \in DOMAIN creds :
             /\ creds[c].credentialNumber = num
             /\ \A x \in DOMAIN creds :
                    creds[x].credentialNumber = num => c <= x
    ELSE 0

\* the body of the answer of the single verification
SingleAnswer(num) ==
    IF FindByNumber(num) = 0
    THEN [verified |-> FALSE, credential |-> 0]
    ELSE [verified |-> TRUE, credential |-> FindByNumber(num)]

\* POST /employers/verify-credential (no file hash sent)
employerVerifyCredential(e, num) ==
    /\ UNCHANGED exceptVerification
    /\ credentialsVerified[e] < MaxVerified
    /\ vresp' = VResponse("verifyCredential", 200, num, SingleAnswer(num))
    /\ credentialsVerified' =
           IF FindByNumber(num) = 0 THEN credentialsVerified
           ELSE [credentialsVerified EXCEPT ![e] = @ + 1]

BulkEntry_FoundIsVerified(credNumber) ==
    LET credential == FindByNumber(credNumber)
    IN  [credentialNumber |-> credNumber,
         found |-> credential # 0,
         verified |-> credential # 0,
         credential |-> credential]

\* one pass of the loop of bulkVerifyCredentials
BulkEntry(credNumber) ==
    LET credential == FindByNumber(credNumber)
    IN  [credentialNumber |-> credNumber,
         found |-> credential # 0,
         verified |-> IF credential # 0
                      THEN creds[credential].verificationStatus = "verified"
                      ELSE FALSE,
         credential |-> credential]

\* results.filter(pred).length
CountWhere(results, pred(_)) == Len(SelectSeq(results, pred))

\* POST /employers/bulk-verify
bulkVerifyCredentials(e, credentialNumbers) ==
    /\ UNCHANGED exceptVerification
    /\ UNCHANGED credentialsVerified
    /\ IF Len(credentialNumbers) = 0
       THEN vresp' = VResponse("bulkVerify", 400, credentialNumbers, <<>>)
       ELSE LET results == [i \in 1..Len(credentialNumbers) |->
                               BulkEntry(credentialNumbers[i])]
            IN  vresp' = VResponse("bulkVerify", 200, credentialNumbers,
                    [total |-> Len(credentialNumbers),
                     verified |-> CountWhere(results, LAMBDA r : r.verified),
                     notFound |-> CountWhere(results, LAMBDA r : ~r.found),
                     data |-> results])

ENext ==
    \/ \E e \in Employers, num \in VerifyNumbers : employerVerifyCredential(e, num)
    \/ \E e \in Employers, b \in Batches : bulkVerifyCredentials(e, b)

\* the sample credential collections with every assignment of statuses
StatusStores ==
    UNION {{[i \in DOMAIN store |->
                [store[i] EXCEPT !.verificationStatus = f[i]]] :
               f \in [DOMAIN store -> Statuses]} : store \in CredentialStores}

InitVerification ==
    /\ PInit /\ TInit /\ MInit /\ AInit
    /\ EInit /\ HInit /\ WInit
    /\ cresp = CResponse("none", 0, 0)
    /\ \E store \in StatusStores :
          /\ creds = store
          /\ nextCred = Len(store)

\* the stores the matching requests are checked against: any of the sample
\* learner collections with any of the sample credential collections
InitMatching ==
    /\ PInit /\ TInit /\ AInit
    /\ EInit /\ HInit /\ WInit
    /\ cresp = CResponse("none", 0, 0)
    /\ \E store \in CredentialStores :
          /\ creds = store
          /\ nextCred = Len(store)
    /\ skills \in SkillStores
    /\ jobs = <<>>
    /\ nextJob = 0
    /\ mcalc = <<>>
    /\ mresp = MResponse("none", 0, 0, <<>>)

\* a Learner collection larger than the slice of getJobMatches: the sample
\* skill lists dealt out in turn to CrowdSize learners, and one job posted
Crowd == 1..CrowdSize

InitCrowd ==
    /\ users = Crowd
    /\ portfolios = <<>>
    /\ issued = 0
    /\ revoked = {}
    /\ replaced = {}
    /\ resp = Response("none", 0, Missing, 0)
    /\ TInit /\ AInit
    /\ EInit /\ HInit /\ WInit
    /\ cresp = CResponse("none", 0, 0)
    /\ \E store \in CredentialStores :
          /\ creds = store
          /\ nextCred = Len(store)
    /\ \E k \in 1..Len(SkillLists) :
          skills = [l \in Crowd |-> SkillLists[((l + k) % Len(SkillLists)) + 1]]
    /\ \E e \in Employers, body \in {b \in JobBodies : ValidJob(b)} :
          jobs = <<NewJob(Spread(body, [employerId |-> e]))>>
    /\ nextJob = 1
    /\ mcalc = <<>>
    /\ mresp = MResponse("none", 0, 0, <<>>)

\* the AI endpoints, each with a request drawn from the samples, against
\* the sample learner collections (the learner skill-gap endpoint reads the
\* learner's skills)
InitAI ==
    /\ PInit /\ TInit /\ CInit
    /\ AiRequest
    /\ EInit /\ HInit /\ WInit
    /\ aresp = AResponse("none", 0, NoRequest, Returned(0))
    /\ skills \in SkillStores
    /\ jobs = <<>>
    /\ nextJob = 0
    /\ mcalc = <<>>
    /\ mresp = MResponse("none", 0, 0, <<>>)

CrowdNext == \E e \in Employers, j \in JobIds : getJobMatches(e, j)

\* -------------------------------------------------------- specifications
\* the portfolio routes of a learner, the public view, and the learner's
\* deletion of the account
SharingNext ==
    \/ \E l \in Learners, b \in BodyIsPublic : createPortfolio(l, b)
    \/ \E l \in Learners : generateShareToken(l)
    \/ \E l \in Learners : unsharePortfolio(l)
    \/ \E l \in Learners : deletePortfolio(l)
    \/ \E t \in Tokens, ip \in IPs : viewPortfolio(t, ip)
    \/ \E l \in Learners, f \in SUBSET CredIds : deleteAccount(l, f)

\* the same with the administrator's deletion of user documents
PNext ==
    \/ SharingNext
    \/ \E l \in Learners : deleteUser(l)

vars == <<pvars, tvars, cvars, mvars, avars, evars, hvars, wvars>>

Init ==
    /\ PInit /\ TInit /\ CInit /\ MInit /\ AInit
    /\ EInit /\ HInit /\ WInit

Next ==
    PNext \/ TNext \/ CNext \/ MNext \/ ANext \/ ENext \/ WNext \/ JNext

Spec == Init /\ [][Next]_vars

\* the portfolio routes alone
SpecPortfolio == Init /\ [][PNext]_vars

\* the portfolio routes without the administrator
SpecSharing == Init /\ [][SharingNext]_vars

\* the employer talent-pool routes alone
SpecTalentPool == Init /\ [][TNext]_vars

\* the credential routes alone
SpecCredential == Init /\ [][CNext]_vars

\* updates of the credentials of a sample collection, in each status
InitUpdate ==
    /\ PInit /\ TInit /\ MInit /\ AInit
    /\ EInit /\ HInit /\ WInit
    /\ cresp = CResponse("none", 0, 0)
    /\ \E store \in CredentialStores \ {<<>>}, st \in Statuses :
          /\ creds = [i \in DOMAIN store |->
                         [store[i] EXCEPT !.verificationStatus = st]]
          /\ nextCred = Len(store)

SpecUpdate == InitUpdate /\ [][UpdateNext]_vars

\* the employer verification routes over the sample collections
SpecVerification == InitVerification /\ [][ENext]_vars

\* interleaved views of one shared public portfolio
InitViews ==
    /\ TInit /\ CInit /\ MInit /\ AInit
    /\ EInit /\ HInit /\ WInit
    /\ users = Learners
    /\ \E l \in Learners, t \in Tokens :
          /\ portfolios = [x \in {l} |->
                 [NewPortfolio(<<TRUE>>) EXCEPT !.shareToken = t,
                                               !.lastShared = 1]]
          /\ issued = t
    /\ revoked = {}
    /\ replaced = {}
    /\ resp = Response("none", 0, Missing, 0)

SpecViews == InitViews /\ [][WNext]_vars

\* the stores a learner's account is viewed and deleted over: credentials
\* of one or of two learners, verified or pending, public or not
AccountBases ==
    {<<SampleCredential(1, "CN-1", 7)>>,
     <<SampleCredential(1, "CN-1", 3), SampleCredential(2, "CN-2", 6)>>}

AccountStores ==
    UNION {{[c \in DOMAIN store |->
                [store[c] EXCEPT !.verificationStatus = st[c],
                                 !.isPublic = pub[c]]] :
               st \in [DOMAIN store -> {"verified", "pending"}],
               pub \in [DOMAIN store -> BOOLEAN]} : store \in AccountBases}

\* Achievement collections: documents of addAchievement, with the fields
\* the portfolio view and the account deletion read
AchievementStores ==
    {<<[learnerId |-> 1, title |-> "Hackathon", isPublic |-> TRUE],
       [learnerId |-> 1, title |-> "Essay", isPublic |-> FALSE],
       [learnerId |-> 2, title |-> "Medal", isPublic |-> TRUE]>>,
     <<[learnerId |-> 2, title |-> "Medal", isPublic |-> FALSE]>>}

\* the share token of learner l's portfolio in the account stores
AccountToken(l) == l

SectionFlags ==
    {[showCredentials |-> sc, showAchievements |-> sa] :
        sc \in BOOLEAN, sa \in BOOLEAN}

\* learners 1 and 2 have shared, public portfolios; learner 1 chose its
\* sections
InitAccount ==
    /\ TInit /\ MInit /\ AInit /\ EInit /\ WInit
    /\ users = Learners
    /\ \E sec \in SectionFlags :
          portfolios = [l \in 1..2 |->
              [NewPortfolio(<<TRUE>>) EXCEPT
                  !.shareToken = AccountToken(l),
                  !.lastShared = 1,
                  !.sections = IF l = 1 THEN sec ELSE @]]
    /\ issued = 2
    /\ revoked = {}
    /\ replaced = {}
    /\ resp = Response("none", 0, Missing, 0)
    /\ \E store \in AccountStores :
          /\ creds = store
          /\ nextCred = Len(store)
    /\ cresp = CResponse("none", 0, 0)
    /\ achievements \in AchievementStores

AccountNext ==
    \/ \E t \in Tokens, ip \in IPs : viewPortfolio(t, ip)
    \/ \E l \in Learners, f \in SUBSET (1..2) : deleteAccount(l, f)

\* public views and account deletions over the account stores
SpecAccount == InitAccount /\ [][AccountNext]_vars

\* credential creation with its analysis, on its own
SpecCreation == Init /\ [][CreationNext]_vars

\* the matching engine over sample stores
SpecMatching == InitMatching /\ [][MNext]_vars

\* the job routes of an employer, from an empty Job collection
SpecJobs == Init /\ [][JNext]_vars

\* the AI endpoints alone
SpecAI == InitAI /\ [][ANext]_vars

\* the matching engine over a large learner collection
SpecCrowd == InitCrowd /\ [][CrowdNext]_vars

\* ---------------------------------------------------------------- claims

\* the portfolios that currently store token t
Holders(t) == {x \in DOMAIN portfolios : portfolios[x].shareToken = t}

\* C1: once unsharePortfolio has completed, a viewPortfolio with the token
\* the portfolio had before the unshare answers 404 (tokens are never issued
\* twice), whatever happened in between.
C1_UnsharedTokenNotFound ==
    (resp.op = "view" /\ resp.token \in revoked) => resp.status = 404

C1_Witness ==
    /\ resp.op = "view" /\ resp.token \in revoked /\ resp.status = 404
    /\ \E l \in DOMAIN portfolios : portfolios[l].isPublic

\* C2: however addToTalentPool requests of one employer for one learner
\* interleave, no talent pool document lists a learner twice.
C2_NoDuplicatePoolEntry ==
    \A d \in 1..Len(pools) :
        \A i, j \in 1..Len(pools[d].learners) :
            pools[d].learners[i] = pools[d].learners[j] => i = j

\* C3: a credential's verificationStatus only ever changes from pending to
\* verified, from pending to rejected, or from anything to expired.
C3_StatusTransitions ==
    [][\A c \in DOMAIN creds \cap DOMAIN creds' :
          LET old == creds[c].verificationStatus
              new == creds'[c].verificationStatus
          IN  \/ new = old
              \/ old = "pending" /\ new \in {"verified", "rejected"}
              \/ new = "expired"]_vars

\* C4: a viewPortfolio(token) step answers 200 only if, in the state it looks
\* up, some portfolio stores exactly that token and has isPublic = true.
C4_ViewNeedsTokenAndPublic ==
    [][(resp'.op = "view" /\ resp'.status = 200) =>
          \E l \in DOMAIN portfolios :
              /\ portfolios[l].shareToken = resp'.token
              /\ portfolios[l].isPublic = TRUE]_vars

C4_Witness ==
    /\ resp.op = "view" /\ resp.status = 200
    /\ \E l \in DOMAIN portfolios :
           portfolios[l].shareToken \in Tokens /\ ~portfolios[l].isPublic

\* C5: a successful generateShareToken stores a token no portfolio has had
\* before, sets isPublic = true and a newer lastShared; the token it
\* overwrote is no longer stored anywhere, and a view with an overwritten
\* token answers 404.
C5_ShareIssuesFreshToken ==
    [][/\ (resp'.op = "share" /\ resp'.status = 200) =>
            LET l == resp'.who IN
            /\ portfolios'[l].shareToken = resp'.token
            /\ resp'.token \in Tokens \ (1..issued)
            /\ Holders(resp'.token) = {}
            /\ portfolios'[l].isPublic = TRUE
            /\ portfolios'[l].lastShared > portfolios[l].lastShared
            /\ portfolios[l].shareToken \in Tokens =>
                   {x \in DOMAIN portfolios' :
                       portfolios'[x].shareToken = portfolios[l].shareToken} = {}
       /\ (resp'.op = "view" /\ resp'.token \in replaced') =>
            resp'.status = 404]_vars

C5_Witness ==
    /\ resp.op = "view" /\ resp.token \in replaced /\ resp.status = 404
    /\ \E l \in DOMAIN portfolios :
           portfolios[l].shareToken \in Tokens /\ portfolios[l].isPublic

\* C6: unsharePortfolio on an existing portfolio answers 200 and leaves the
\* portfolio with shareToken = null and isPublic = false.
C6_UnshareAlwaysSucceeds ==
    (resp.op = "unshare" /\ resp.status # 404) =>
        /\ resp.status = 200
        /\ portfolios[resp.who].shareToken = NullToken
        /\ portfolios[resp.who].isPublic = FALSE

C8_OnePoolPerEmployer ==
    \A i, j \in 1..Len(pools) :
        pools[i].employerId = pools[j].employerId => i = j

\* C9: for a job without required skills the matching requests compute a
\* skillMatchPercentage and a matchScore that are numbers, not NaN.
C9_EmptyRequiredDefined ==
    \A i \in 1..Len(mcalc) :
        mcalc[i].totalRequiredSkills = 0 =>
            /\ ~mcalc[i].skillMatchPercentage.nan
            /\ ~mcalc[i].matchScore.nan

\* sub occurs in str at some position
Occurs(sub, str) ==
    \E i \in 1..(Len(str) + 1) :
        /\ i + Len(sub) - 1 <= Len(str)
        /\ \A k \in 1..Len(sub) : str[i + k - 1] = sub[k]

\* the required skills some learner skill contains or is contained in, both
\* sides lower-cased
MatchedRequired(learnerSkills, requiredSkills) ==
    {k \in 1..Len(requiredSkills) :
        \E i \in 1..Len(learnerSkills) :
            LET ls == toLowerCase(learnerSkills[i])
                rs == toLowerCase(requiredSkills[k])
            IN  Occurs(rs, ls) \/ Occurs(ls, rs)}

\* k is a / b rounded to the nearest integer, halves up (b > 0)
IsRounded(k, a, b) == (2 * k - 1) * b <= 2 * a /\ 2 * a < (2 * k + 1) * b

ExampleComputed(m) ==
    /\ skills[m.learner] = <<React, Node>>
    /\ jobs[m.job].requiredSkills = <<react, node, docker>>
    /\ m.nsqfLevel = 0
    /\ jobs[m.job].minNSQFLevel = Missing

\* C10: for a job with n > 0 required skills, of which the learner matches
\* `matched` (bidirectional containment of the lower-cased names), matchScore
\* is matched / n * 100 * 0.7 + (nsqfMatch ? 30 : 0) rounded to the nearest
\* integer; skills [React, Node] against [react, node, docker] with NSQF
\* level 0 and no minimum level give matchedSkills 2 and matchScore 77.
C10_MatchScoreFormula ==
    \A i \in 1..Len(mcalc) :
        LET m == mcalc[i]
            n == m.totalRequiredSkills
            matched == Cardinality(MatchedRequired(skills[m.learner],
                                                   jobs[m.job].requiredSkills))
            bonus == IF m.nsqfMatch THEN 30 ELSE 0
        IN  n > 0 =>
              /\ n = Len(jobs[m.job].requiredSkills)
              /\ m.matchedSkills = matched
              /\ ~m.matchScore.nan
              /\ m.matchScore.den = 1
              /\ IsRounded(m.matchScore.num, 70 * matched + bonus * n, n)
              /\ ExampleComputed(m) =>
                     m.matchedSkills = 2 /\ m.nsqfMatch /\ m.matchScore.num = 77

C10_Witness ==
    \E i \in 1..Len(mcalc) :
        /\ ExampleComputed(mcalc[i])
        /\ mcalc[i].matchScore.num = 77
        /\ mresp.status = 200

\* C11: getJobMatches returns only evaluated learners whose matchScore is at
\* least 40, each once, in descending score order, at most 20 of them, and no
\* evaluated learner it leaves out has a score strictly greater than a
\* returned learner's.
C11_TopMatchesReturned ==
    (mresp.op = "getJobMatches" /\ mresp.status = 200) =>
        LET data == mresp.data
            returned == {data[i].learner : i \in 1..Len(data)}
        IN  /\ Len(data) <= 20
            /\ Cardinality(returned) = Len(data)
            /\ \A i \in 1..Len(data) :
                   /\ \E k \in 1..Len(mcalc) : mcalc[k] = data[i]
                   /\ ~data[i].matchScore.nan
                   /\ data[i].matchScore.num >= 40 * data[i].matchScore.den
            /\ \A i, j \in 1..Len(data) :
                   i < j => data[i].matchScore.num >= data[j].matchScore.num
            /\ \A k \in 1..Len(mcalc) :
                   mcalc[k].learner \notin returned =>
                       \A i \in 1..Len(data) :
                           \/ mcalc[k].matchScore.nan
                           \/ mcalc[k].matchScore.num <= data[i].matchScore.num

C11_Witness ==
    /\ mresp.op = "getJobMatches" /\ mresp.status = 200
    /\ Len(mresp.data) = 20
    /\ Len(Pushed(mcalc)) > 20
    /\ mresp.data[1].matchScore.num > mresp.data[20].matchScore.num
    /\ \E k \in 1..Len(mcalc) : ~AtLeast(mcalc[k].matchScore, 40)

\* the learner has no document in the Credential collection
NoCredentials(l) == \A c \in DOMAIN creds : creds[c].learnerId # l

\* C12: for a learner without credentials the matching requests compute
\* maximum NSQF level 0, and nsqfMatch is true for that learner only when the
\* job's minNSQFLevel is unset or 0.
C12_NoCredentialsLevelZero ==
    \A i \in 1..Len(mcalc) :
        LET m == mcalc[i] IN
        NoCredentials(m.learner) =>
            /\ m.nsqfLevel = 0
            /\ m.nsqfMatch => jobs[m.job].minNSQFLevel \in {Missing, 0}

C12_Witness ==
    /\ mresp.status = 200
    /\ \E i \in 1..Len(mcalc) :
           /\ NoCredentials(mcalc[i].learner)
           /\ mcalc[i].nsqfLevel = 0
           /\ jobs[mcalc[i].job].minNSQFLevel = 6
           /\ ~mcalc[i].nsqfMatch
    /\ \E c \in DOMAIN creds : TRUE

\* C13: among the records one getJobMatches request computes for its job
\* (one non-empty required-skill list), two learners with the same nsqfMatch
\* are scored in the order of their matched-skill counts: more matched
\* skills never give a lower matchScore.
C13_ScoreMonotoneInMatched ==
    \A i, k \in 1..Len(mcalc) :
        LET a == mcalc[i]
            b == mcalc[k]
        IN  (/\ a.job = b.job
             /\ a.totalRequiredSkills > 0
             /\ a.nsqfMatch = b.nsqfMatch
             /\ a.matchedSkills <= b.matchedSkills) =>
                /\ ~a.matchScore.nan /\ ~b.matchScore.nan
                /\ a.matchScore.num <= b.matchScore.num

C13_Witness ==
    /\ mresp.op = "getJobMatches" /\ mresp.status = 200
    /\ \E nsqf \in BOOLEAN :
         \A matched \in 0..3 :
           \E i \in 1..Len(mcalc) :
              /\ mcalc[i].nsqfMatch = nsqf
              /\ mcalc[i].totalRequiredSkills = 5
              /\ mcalc[i].matchedSkills = matched
              /\ mcalc[i].matchScore.num = 14 * matched + (IF nsqf THEN 30 ELSE 0)

\* ---- C14
\* the request of the last skill-gap analysis named a catalog role and gave
\* exactly that role's required skills as the current skills
FullListRequest ==
    /\ aresp.op = "analyzeSkillGap"
    /\ aresp.status # 400
    /\ \E i \in 1..Len(AllRoleSkills) :
          /\ aresp.inp.targetRole = <<AllRoleSkills[i].role>>
          /\ aresp.inp.currentSkills = AllRoleSkills[i].skills

\* C14: for every role of the catalog, analyzeSkillGap called with that
\* role's full required-skill list as the current skills returns
\* matchPercentage 100 and no missing skills, whatever the classification
\* calls did (failed, or answered anything, an empty answer included)
C14_FullListMatchesFully ==
    FullListRequest =>
        /\ ~aresp.out.threw
        /\ aresp.out.value.matchPercentage = 100
        /\ aresp.out.value.missingSkills = <<>>

\* ---- C15
\* the skills and the target role the last skill-gap analysis was called with
GapCurrentSkills ==
    IF aresp.op = "getSkillGapAnalysis" THEN SkillNames(aresp.inp.learner)
    ELSE aresp.inp.currentSkills

\* the role is missing, or what it is normalised to is not in the catalog
NotACatalogRole(role) ==
    \/ ~Defined(role)
    \/ \A i \in 1..Len(AllRoleSkills) :
          AllRoleSkills[i].role # normalizeRoleName(role).value

\* C15: with current skills and a target role that is not a catalog role
\* (it may be missing on the learner endpoint), the analysis does not throw
\* and returns matchPercentage 0 and the list of available roles
C15_UnknownRoleListsRoles ==
    (/\ aresp.op \in {"analyzeSkillGap", "getSkillGapAnalysis"}
     /\ aresp.status # 400
     /\ Len(GapCurrentSkills) > 0
     /\ NotACatalogRole(aresp.inp.targetRole)) =>
        /\ ~aresp.out.threw
        /\ aresp.out.value.matchPercentage = 0
        /\ aresp.out.value.availableRoles = <<RoleNames>>

\* ---- C16
\* C16: when the external call fails, extractSkills (for a non-empty text)
\* and predictNSQFLevel do not throw: extractSkills returns the skills of
\* the vocabulary scan of the text, predictNSQFLevel the level of the
\* keyword and type tables
C16_ApiFailureFallsBack ==
    /\ (/\ aresp.op = "extractSkills"
        /\ aresp.status # 400
        /\ Len(StrTrim(aresp.inp.text[1])) > 0
        /\ ~aresp.inp.api.ok) =>
           /\ ~aresp.out.threw
           /\ [i \in 1..Len(aresp.out.value) |-> aresp.out.value[i].name]
                  = FirstTen(extractKeywords(aresp.inp.text[1]))
    /\ (/\ aresp.op = "predictNSQFLevel"
        /\ Len(StrTrim(CredentialText(aresp.inp.body))) > 0
        /\ ~aresp.inp.api.ok) =>
           /\ ~aresp.out.threw
           /\ aresp.out.value =
                  predictNSQFFromKeywords(CredentialText(aresp.inp.body),
                                          aresp.inp.body.type)

\* ---- C17
\* bidirectional substring matching of a required skill against the
\* lower-cased current skills
SubstringJudgment(requiredSkill) ==
    \E i \in 1..Len(GapCurrentSkills) :
        LET current == StrToLowerCase(GapCurrentSkills[i])
            wanted == StrToLowerCase(requiredSkill)
        IN  StrIncludes(current, wanted) \/ StrIncludes(wanted, current)

\* the last analysis went through the classification of the required skills
\* of a catalog role and the call for the k-th of them failed
FailedCall(k) ==
    /\ aresp.op \in {"analyzeSkillGap", "getSkillGapAnalysis"}
    /\ aresp.status # 400
    /\ Len(GapCurrentSkills) > 0
    /\ ~NotACatalogRole(aresp.inp.targetRole)
    /\ k <= Len(getRequiredSkillsForRole(
                    normalizeRoleName(aresp.inp.targetRole).value))
    /\ ~aresp.inp.apis[k].ok

\* C17: a classification call that fails for one required skill is absorbed
\* for that skill only: the skill is judged by bidirectional substring
\* matching, every skill whose call answered keeps the judgment of its own
\* answer, and the analysis returns a normal result
C17_FailureAbsorbedPerSkill ==
    \A k \in 1..MaxRequired :
        FailedCall(k) =>
            /\ ~aresp.out.threw
            /\ aresp.status = 200
            /\ LET judged == aresp.out.value.skillMatches
                   required == aresp.out.value.requiredSkills
               IN  /\ Len(judged) = Len(required)
                   /\ judged[k].skill = required[k]
                   /\ judged[k].hasSkill = SubstringJudgment(required[k])
                   /\ \A i \in 1..Len(required) :
                          aresp.inp.apis[i].ok =>
                              /\ judged[i].skill = required[i]
                              /\ judged[i].confidence =
                                     extractClassificationConfidence(
                                         aresp.inp.apis[i].text)
                              /\ judged[i].hasSkill = (judged[i].confidence > 5)

C17_Witness ==
    /\ FailedCall(3)
    /\ \A i \in 1..MaxRequired : i # 3 => aresp.inp.apis[i].ok
    /\ ~aresp.out.threw
    /\ aresp.out.value.skillMatches[3].hasSkill
    /\ aresp.out.value.skillMatches[3].confidence = 8
    /\ ~aresp.out.value.skillMatches[1].hasSkill
    /\ aresp.out.value.skillMatches[1].confidence = 5

\* ---- C19
\* C19: predictNSQFLevel returns an integer from 1 to 10 on every path
\* (empty text, answer in range, answer missing or out of range, failed
\* call), for every credential type, unknown and missing ones included
C19_LevelInRange ==
    aresp.op = "predictNSQFLevel" =>
        /\ ~aresp.out.threw
        /\ aresp.out.value \in 1..10

\* ---- C20
\* the level-prediction call of the last request failed or its answer held
\* no level from 1 to 10 (no call is made when the text is empty)
NoLevelFromApi ==
    /\ aresp.op = "predictNSQFLevel"
    /\ \/ Len(StrTrim(CredentialText(aresp.inp.body))) = 0
       \/ ~aresp.inp.api.ok
       \/ extractNumberFromText(aresp.inp.api.text) \notin 1..10

\* the highest level one of whose keywords occurs in the lower-cased
\* title and description, 0 when no keyword occurs
HighestKeywordLevel(body) ==
    LET lowerText == StrToLowerCase(CredentialText(body))
        hits == {lv \in 1..Len(LevelKeywords) : LevelHit(lowerText, lv)}
    IN  IF hits = {} THEN 0
        ELSE CHOOSE lv \in hits : \A x \in hits : x <= lv

\* the type defaults as the specification lists them
ListedDefault(type) ==
    CASE type = "certificate" -> 5
      [] type = "diploma" -> 6
      [] type = "degree" -> 7
      [] type = "micro-credential" -> 4
      [] type = "badge" -> 3
      [] type = "other" -> 5

ListedTypes ==
    {"certificate", "diploma", "degree", "micro-credential", "badge", "other"}

\* C20: when the call fails or yields no level from 1 to 10,
\* predictNSQFLevel returns the highest level (10 down to 1) that has a
\* keyword occurring in the lower-cased title and description, and the
\* default of the type when no keyword occurs (certificate 5, diploma 6,
\* degree 7, micro-credential 4, badge 3, other 5)
C20_KeywordThenTypeDefault ==
    (/\ NoLevelFromApi
     /\ Defined(aresp.inp.body.type)
     /\ aresp.inp.body.type[1] \in ListedTypes) =>
        /\ ~aresp.out.threw
        /\ aresp.out.value =
               IF HighestKeywordLevel(aresp.inp.body) > 0
               THEN HighestKeywordLevel(aresp.inp.body)
               ELSE ListedDefault(aresp.inp.body.type[1])

\* after a failed call a text with keywords of levels 6, 7 and 8 got 8,
\* not the default of its type
C20_Witness ==
    /\ NoLevelFromApi
    /\ ~aresp.inp.api.ok
    /\ aresp.inp.body.type = <<"badge">>
    /\ LevelHit(StrToLowerCase(CredentialText(aresp.inp.body)), 6)
    /\ HighestKeywordLevel(aresp.inp.body) = 8
    /\ aresp.out.value = 8

\* ---- C18
\* the last credential request was a creation with a credential number that
\* was free
ValidCreation == cresp.op = "create" /\ ~cresp.req[1].numberTaken

\* C18: createCredential with a valid request and an uploaded file stores
\* the credential and answers 201 whether the external calls of the
\* analysis succeeded or failed (a timeout is a failure of the call)
C18_AiFailureStillCreates ==
    ValidCreation =>
        /\ cresp.status = 201
        /\ cresp.id \in DOMAIN creds
        /\ creds[cresp.id].verificationStatus = "pending"

\* a creation whose skill-extraction call failed: stored without skills and
\* level, answered 201
C18_Witness ==
    /\ ValidCreation
    /\ ~cresp.req[1].skillApi.ok
    /\ cresp.status = 201
    /\ cresp.id \in DOMAIN creds
    /\ creds[cresp.id].skills = <<>>
    /\ creds[cresp.id].nsqfLevel = Missing

\* ---- C30
\* the catalog role whose name, letter case aside, is the target role of the
\* last skill-gap analysis; 0 when there is none
TypedCatalogRole ==
    IF /\ aresp.op \in {"analyzeSkillGap", "getSkillGapAnalysis"}
       /\ aresp.status # 400
       /\ Defined(aresp.inp.targetRole)
       /\ \E i \in 1..Len(AllRoleSkills) :
             StrToLowerCase(AllRoleSkills[i].role)
                 = StrToLowerCase(aresp.inp.targetRole[1])
    THEN CHOOSE i \in 1..Len(AllRoleSkills) :
             StrToLowerCase(AllRoleSkills[i].role)
                 = StrToLowerCase(aresp.inp.targetRole[1])
    ELSE 0

\* C30: normalizeRoleName maps the exact name of every catalog role, in any
\* letter case, to that same role, so an analysis for a target role typed
\* as a catalog name uses that role's own required-skill list
C30_CatalogNameKeepsRole ==
    (TypedCatalogRole > 0 /\ Len(GapCurrentSkills) > 0) =>
        /\ normalizeRoleName(aresp.inp.targetRole)
               = Returned(AllRoleSkills[TypedCatalogRole].role)
        /\ ~aresp.out.threw
        /\ aresp.out.value.targetRole = <<AllRoleSkills[TypedCatalogRole].role>>
        /\ aresp.out.value.requiredSkills = AllRoleSkills[TypedCatalogRole].skills

\* ---- C28
\* field of the credential c is the same before and after the step
SameField(c, field) == creds'[c][field] = creds[c][field]

\* C28: updateCredential changes only those of the fields it copies
\* (here isPublic, credentialNumber, description) that are present in the
\* body; verificationStatus, verifiedBy, learnerId, institutionId, skills
\* and nsqfLevel stay as they were whatever the body contains, and no other
\* credential is touched
C28_UpdateFrame ==
    [][\A a \in Actors, c \in DOMAIN creds, b \in UpdateBodies :
          updateCredential(a, c, b) =>
              /\ DOMAIN creds' = DOMAIN creds
              /\ \A x \in DOMAIN creds \ {c} : creds'[x] = creds[x]
              /\ \A f \in {"verificationStatus", "verifiedBy", "learnerId",
                           "institutionId", "skills", "nsqfLevel"} :
                     SameField(c, f)
              /\ \A f \in {"isPublic", "credentialNumber", "description"} :
                     \/ SameField(c, f)
                     \/ Len(b[f]) > 0 /\ creds'[c][f] = b[f][1]]_vars

\* an admin's update whose body also named a status, an institution or a
\* level went through: the credential changed, none of those fields did
C28_Witness ==
    /\ cresp.op = "update" /\ cresp.status = 200
    /\ cresp.id \in DOMAIN creds
    /\ creds[cresp.id].description = "Pottery II"
    /\ creds[cresp.id].verificationStatus \in {"pending", "rejected"}
    /\ creds[cresp.id].nsqfLevel # 9
    /\ creds[cresp.id].credentialNumber = "CN-2"
    /\ creds[cresp.id].institutionId = "inst-A"

\* ---- C22
\* the actor is an institution user of another institution than the one
\* that issued the credential c
NotTheIssuer(a, c) ==
    /\ a.role = "institution"
    /\ c \in DOMAIN creds
    /\ creds[c].institutionId # a.tenantId

\* C22: updateCredential, verifyCredential and deleteCredential requested
\* by an institution user that did not issue the credential end in a client
\* error and leave the credential as it was
C22_OnlyIssuerChanges ==
    [][\A a \in Actors, c \in CredIds :
          (/\ NotTheIssuer(a, c)
           /\ \/ \E b \in UpdateBodies : updateCredential(a, c, b)
              \/ \E st \in BodyStatuses : verifyCredential(a, c, st)
              \/ deleteCredential(a, c)) =>
              /\ cresp'.status \in 400..499
              /\ creds' = creds]_vars

\* ---- C23
\* C23: updateCredential is permitted exactly for an admin and for a user
\* whose tenant is the issuing institution: their request updates the
\* credential and answers 200, any other institution user gets 403
C23_UpdatePermittedForIssuer ==
    [][\A a \in Actors, c \in DOMAIN creds, b \in UpdateBodies :
          (/\ updateCredential(a, c, b)
           /\ ~NumberTaken(c, UpdatedDoc(creds[c], b).credentialNumber)) =>
              IF a.role = "admin" \/ a.tenantId = creds[c].institutionId
              THEN /\ cresp'.status = 200
                   /\ creds' = PutCredential(c, UpdatedDoc(creds[c], b))
              ELSE /\ cresp'.status = 403
                   /\ creds' = creds]_vars

\* ---- C21
\* the stored credentials that carry the number
WithNumber(num) == {c \in DOMAIN creds : creds[c].credentialNumber = num}

\* C21: bulkVerifyCredentials with a non-empty array answers 200 with one
\* result per input number in input order; an unknown number gets found
\* and verified false, verified is true exactly for a found credential
\* whose status is verified, and total, verified and notFound are the
\* counts over the results
C21_BulkReportsEachNumber ==
    (vresp.op = "bulkVerify" /\ Len(vresp.inp) > 0) =>
        /\ vresp.status = 200
        /\ LET data == vresp.body.data IN
           /\ Len(data) = Len(vresp.inp)
           /\ \A i \in 1..Len(data) :
                 /\ data[i].credentialNumber = vresp.inp[i]
                 /\ data[i].found = (WithNumber(vresp.inp[i]) # {})
                 /\ data[i].verified =
                        \E c \in WithNumber(vresp.inp[i]) :
                            creds[c].verificationStatus = "verified"
           /\ vresp.body.total = Len(vresp.inp)
           /\ vresp.body.verified =
                  Cardinality({i \in 1..Len(data) : data[i].verified})
           /\ vresp.body.notFound =
                  Cardinality({i \in 1..Len(data) : ~data[i].found})

\* a batch of an unknown number, then the number of a credential that is
\* stored but not verified
C21_Witness ==
    /\ vresp.op = "bulkVerify" /\ vresp.status = 200
    /\ vresp.inp = <<"CN-9", "CN-1">>
    /\ \E c \in WithNumber("CN-1") : creds[c].verificationStatus = "rejected"
    /\ ~vresp.body.data[1].found
    /\ vresp.body.data[2].found /\ ~vresp.body.data[2].verified
    /\ vresp.body.notFound = 1 /\ vresp.body.verified = 0

\* ---- C29
\* C29: the single verification and the bulk verification agree on every
\* credential number: on the same store both report verified true or both
\* report verified false, whatever the status of the credential or its
\* absence
C29_SingleAgreesWithBulk ==
    /\ vresp.op = "verifyCredential" =>
           vresp.body.verified = BulkEntry(vresp.inp).verified
    /\ (vresp.op = "bulkVerify" /\ vresp.status = 200) =>
           \A i \in 1..Len(vresp.inp) :
               vresp.body.data[i].verified = SingleAnswer(vresp.inp[i]).verified

\* ---- C26
\* C26: in every reachable state the views counter of a portfolio equals the
\* number of entries of its viewHistory, also when several viewPortfolio
\* requests interleave their read, their increment and push, and their save.
C26_ViewsEqualHistory ==
    \A l \in DOMAIN portfolios :
        portfolios[l].views = Len(portfolios[l].viewHistory)

\* ---- C27
\* C27: the employerId of a job is the employer that created it, whatever
\* employerId the body of createJob carried, and no job route ever changes
\* it; getJob, updateJob, deleteJob and getJobMatches answer 200 only for a
\* job whose employerId is the requesting employer.
C27_JobKeepsItsEmployer ==
    [][/\ \A e \in Employers, b \in CreateBodies :
            createJob(e, b) /\ mresp'.status = 201
                => jobs'[mresp'.id].employerId = e
       /\ \A j \in DOMAIN jobs \cap DOMAIN jobs' :
            jobs'[j].employerId = jobs[j].employerId
       /\ \A e \in Employers, j \in JobIds :
            (\/ getJob(e, j) \/ deleteJob(e, j) \/ getJobMatches(e, j)
             \/ \E b \in JobUpdates : updateJob(e, j, b))
            /\ mresp'.status = 200
                => j \in DOMAIN jobs /\ jobs[j].employerId = e]_vars

\* ---- C25
\* C25: a public view answered 200 returns only credentials of the
\* portfolio's learner that are verified and public, only achievements of
\* that learner that are public, and an empty list for each of the two
\* whose section (showCredentials, showAchievements) is switched off.
C25_ViewReturnsOnlyPublic ==
    (resp.op = "view" /\ resp.status = 200) =>
        LET l == resp.who
            d == resp.data[1]
        IN  /\ portfolios[l].shareToken = resp.token
            /\ \A i \in DOMAIN d.credentials :
                  /\ d.credentials[i] \in DOMAIN creds
                  /\ creds[d.credentials[i]].learnerId = l
                  /\ creds[d.credentials[i]].verificationStatus = "verified"
                  /\ creds[d.credentials[i]].isPublic = TRUE
            /\ \A i \in DOMAIN d.achievements :
                  /\ d.achievements[i].learnerId = l
                  /\ d.achievements[i].isPublic = TRUE
            /\ ~portfolios[l].sections.showCredentials => d.credentials = <<>>
            /\ ~portfolios[l].sections.showAchievements
                  => d.achievements = <<>>

\* a view that returned a credential while the collection also holds one it
\* must not return, and hid the learner's public achievements
C25_Witness ==
    /\ resp.op = "view" /\ resp.status = 200
    /\ resp.data[1].credentials # <<>>
    /\ \E c \in DOMAIN creds :
          /\ \A i \in DOMAIN resp.data[1].credentials :
                resp.data[1].credentials[i] # c
          /\ creds[c].isPublic
    /\ ~portfolios[resp.who].sections.showAchievements
    /\ PublicAchievements(resp.who) # <<>>
    /\ resp.data[1].achievements = <<>>

\* ---- C24
\* C24: when deleteAccount has answered, no credential, portfolio or
\* achievement of the learner and no Learner/User document of the learner
\* is left, whichever file deletions failed, no public portfolio carries
\* the learner's former token, and a view with that token answers 404.
C24_AccountFullyDeleted ==
    [][/\ \A l \in Learners, f \in SUBSET (1..2) :
            deleteAccount(l, f) =>
                /\ resp'.status = 200
                /\ \A c \in DOMAIN creds' : creds'[c].learnerId # l
                /\ l \notin DOMAIN portfolios'
                /\ \A i \in DOMAIN achievements' :
                      achievements'[i].learnerId # l
                /\ l \notin users'
                /\ HasPortfolio(l) =>
                      \A x \in DOMAIN portfolios' :
                          portfolios'[x].shareToken # portfolios[l].shareToken
       /\ \A l \in Learners \ users, ip \in IPs :
            viewPortfolio(AccountToken(l), ip) => resp'.status = 404]_vars

\* a learner that had a credential, a portfolio and achievements deleted the
\* account, and a view with the former token was answered 404
C24_Witness ==
    /\ resp.op = "view" /\ resp.status = 404
    /\ resp.token = AccountToken(1)
    /\ 1 \notin users
    /\ nextCred = 2 /\ DOMAIN creds = {2}
    /\ Len(achievements) = 1 /\ achievements[1].learnerId = 2

====
